---------------------------- MODULE Spec2Model ----------------------------
(***************************************************************************)
(* A model of tele-convo's persistence and query engine                    *)
(* (src/src/tele_convo/db.py, server.py, main.py): the cursor codec, the   *)
(* connection manager, the message table with its full-text index, and     *)
(* cursor pagination.                                                      *)
(*                                                                         *)
(* Text is a sequence of one-character strings; a byte is a number 0..255. *)
(***************************************************************************)
EXTENDS Integers, Sequences, FiniteSets, TLC

(***************************************************************************)
(* Characters and strings                                                  *)
(***************************************************************************)

\* The printable ASCII characters, code 32 first ("bq" is the backquote, code 96).
Ascii ==
  << " ", "!", "\"", "#", "$", "%", "&", "'", "(", ")", "*", "+", ",", "-", ".", "/",
     "0", "1", "2", "3", "4", "5", "6", "7", "8", "9", ":", ";", "<", "=", ">", "?",
     "@", "A", "B", "C", "D", "E", "F", "G", "H", "I", "J", "K", "L", "M", "N", "O",
     "P", "Q", "R", "S", "T", "U", "V", "W", "X", "Y", "Z", "[", "\\", "]", "^", "_",
     "bq", "a", "b", "c", "d", "e", "f", "g", "h", "i", "j", "k", "l", "m", "n", "o",
     "p", "q", "r", "s", "t", "u", "v", "w", "x", "y", "z", "{", "|", "}", "~" >>

AsciiChars == { Ascii[i] : i \in 1..Len(Ascii) }

\* The character that stands for a control byte other than tab, LF and CR.
CtlChar == "\f"

OrdTable == [c \in AsciiChars |-> 31 + (CHOOSE i \in 1..Len(Ascii) : Ascii[i] = c)]

\* ord(c)
Ord(c) ==
  CASE c \in AsciiChars -> OrdTable[c]
    [] c = "\t" -> 9
    [] c = "\n" -> 10
    [] c = "\r" -> 13
    [] OTHER -> 12

\* chr(b) for a byte below 128
Chr(b) ==
  CASE b >= 32 /\ b <= 126 -> Ascii[b - 31]
    [] b = 9 -> "\t"
    [] b = 10 -> "\n"
    [] b = 13 -> "\r"
    [] OTHER -> CtlChar

Digits == <<"0", "1", "2", "3", "4", "5", "6", "7", "8", "9">>

IsDigit(c) == \E i \in 1..10 : Digits[i] = c

DigitVal(c) == (CHOOSE i \in 1..10 : Digits[i] = c) - 1

\* str.encode() of an ASCII string: its bytes.
StrEncode(s) == [i \in 1..Len(s) |-> Ord(s[i])]

\* The lexicographic order of two strings by character code, the order in
\* which the BINARY collation and Python compare ASCII text.
StrLess(a, b) ==
  \E k \in 1..Len(b) :
    /\ k <= Len(a) + 1
    /\ k = Len(a) + 1 \/ (a[k] # b[k] /\ Ord(a[k]) < Ord(b[k]))
    /\ \A j \in 1..(k - 1) : a[j] = b[j]

StrLessEq(a, b) == a = b \/ StrLess(a, b)

\* str(n) of a natural number.
RECURSIVE NatToStr(_)
NatToStr(n) ==
  IF n < 10 THEN <<Digits[n + 1]>>
  ELSE NatToStr(n \div 10) \o <<Digits[(n % 10) + 1]>>

\* str(n) of an integer.
IntToStr(n) == IF n < 0 THEN <<"-">> \o NatToStr(0 - n) ELSE NatToStr(n)

\* A suffix of a sequence, from index i.
Drop(s, i) == SubSeq(s, i, Len(s))

\* Whether string p occurs in s at index i.
StartsWithAt(s, i, p) ==
  /\ i + Len(p) - 1 <= Len(s)
  /\ \A k \in 1..Len(p) : s[i + k - 1] = p[k]

(***************************************************************************)
(* base64 (Python's base64.b64encode / b64decode over binascii)            *)
(***************************************************************************)

B64Alphabet ==
  << "A", "B", "C", "D", "E", "F", "G", "H", "I", "J", "K", "L", "M", "N", "O", "P",
     "Q", "R", "S", "T", "U", "V", "W", "X", "Y", "Z", "a", "b", "c", "d", "e", "f",
     "g", "h", "i", "j", "k", "l", "m", "n", "o", "p", "q", "r", "s", "t", "u", "v",
     "w", "x", "y", "z", "0", "1", "2", "3", "4", "5", "6", "7", "8", "9", "+", "/" >>

B64Chars == { B64Alphabet[i] : i \in 1..64 }

B64Table == [c \in B64Chars |-> (CHOOSE i \in 1..64 : B64Alphabet[i] = c) - 1]

B64Char(v) == B64Alphabet[v + 1]

\* base64.b64encode(bytes): three bytes to four characters, "=" padding.
\* Byte i of bs, and 0 past its end (the zero bits that fill the last group).
ByteOrZero(bs, i) == IF i <= Len(bs) THEN bs[i] ELSE 0

\* base64.b64encode(bytes): each group of three bytes gives four characters;
\* a last group of one or two bytes is filled with "=".
B64Encode(bs) ==
  [p \in 1..(4 * ((Len(bs) + 2) \div 3)) |->
    LET g == 3 * ((p - 1) \div 4)
        q == (p - 1) % 4
        b1 == ByteOrZero(bs, g + 1)
        b2 == ByteOrZero(bs, g + 2)
        b3 == ByteOrZero(bs, g + 3)
    IN CASE q = 0 -> B64Char(b1 \div 4)
         [] q = 1 -> B64Char((b1 % 4) * 16 + b2 \div 16)
         [] q = 2 -> IF g + 2 > Len(bs) THEN "=" ELSE B64Char((b2 % 16) * 4 + b3 \div 64)
         [] OTHER -> IF g + 3 > Len(bs) THEN "=" ELSE B64Char(b3 % 64)]

\* binascii.a2b_base64 in its default, non-strict mode, as one scan of s:
\* characters outside the alphabet are skipped; quad_pos is the count of data
\* characters so far modulo 4; a "=" met at quad_pos >= 2 that completes the
\* quad (with the "=" counted since the last data character) ends the parse;
\* at the end of s an unfinished quad is an error (binascii.Error).
DataBefore(s, i) == Cardinality({j \in 1..(i - 1) : s[j] \in B64Chars})

QuadPos(s, i) == DataBefore(s, i) % 4

\* The "=" counted when the scan reaches index i: those after the last data
\* character, which are counted only at quad_pos >= 2.
PadsBefore(s, i) ==
  IF QuadPos(s, i) < 2 THEN 0
  ELSE Cardinality({j \in 1..(i - 1) :
         /\ s[j] = "="
         /\ \A k \in j..(i - 1) : s[k] \notin B64Chars})

PadEndsParse(s, i) ==
  /\ s[i] = "="
  /\ QuadPos(s, i) >= 2
  /\ QuadPos(s, i) + PadsBefore(s, i) + 1 >= 4

\* The index at which the scan stops: the first pad that ends the parse, or
\* the end of s.
ScanEnd(s) ==
  IF \E i \in 1..Len(s) : PadEndsParse(s, i)
  THEN CHOOSE i \in 1..Len(s) :
         PadEndsParse(s, i) /\ \A j \in 1..(i - 1) : ~PadEndsParse(s, j)
  ELSE Len(s) + 1

\* The bytes of a sequence v of 6-bit values: a byte is written with the
\* second, third and fourth value of each quad.
SextetsToBytes(v) ==
  [k \in 1..(3 * (Len(v) \div 4) + (IF Len(v) % 4 > 1 THEN (Len(v) % 4) - 1 ELSE 0)) |->
    LET g == 4 * ((k - 1) \div 3)
        r == (k - 1) % 3
        a == v[g + r + 1]
        b == v[g + r + 2]
    IN CASE r = 0 -> a * 4 + b \div 16
         [] r = 1 -> (a % 16) * 16 + b \div 4
         [] OTHER -> (a % 4) * 64 + b]

\* base64.b64decode(s) of a string's characters.
B64Decode(s) ==
  LET end == ScanEnd(s)
      data == SelectSeq(SubSeq(s, 1, end - 1), LAMBDA c : c \in B64Chars)
      v == [i \in 1..Len(data) |-> B64Table[data[i]]]
  IN [ok |-> end <= Len(s) \/ Len(data) % 4 = 0, bytes |-> SextetsToBytes(v)]

\* bytes.decode(): UTF-8. A byte below 128 is its character; the model's inputs
\* hold no well-formed multi-byte sequence, so any other byte is a
\* UnicodeDecodeError.
Utf8Decode(bs) ==
  [ok |-> \A i \in 1..Len(bs) : bs[i] < 128,
   text |-> [i \in 1..Len(bs) |-> Chr(bs[i])]]

(***************************************************************************)
(* JSON (Python's json.dumps / json.loads)                                 *)
(*                                                                         *)
(* A JSON value is a record [t, n, s, e]: its type, number, string and     *)
(* elements. A dict's elements are pairs, in the order of the text.        *)
(***************************************************************************)

JNull == [t |-> "null", n |-> 0, s |-> <<>>, e |-> <<>>]
JBool(b) == [t |-> "bool", n |-> IF b THEN 1 ELSE 0, s |-> <<>>, e |-> <<>>]
JInt(n) == [t |-> "int", n |-> n, s |-> <<>>, e |-> <<>>]
JFloat(n) == [t |-> "float", n |-> n, s |-> <<>>, e |-> <<>>]
JStr(s) == [t |-> "str", n |-> 0, s |-> s, e |-> <<>>]
\* float("nan"), float("inf") and float("-inf"): a float that s names; n
\* is not its value, only its truth (none of the three is zero).
JConstant(name) == [t |-> "float", n |-> 1, s |-> name, e |-> <<>>]
JList(e) == [t |-> "list", n |-> 0, s |-> <<>>, e |-> e]
JPair(k, v) == [t |-> "pair", n |-> 0, s |-> k, e |-> <<v>>]
JDict(e) == [t |-> "dict", n |-> 0, s |-> <<>>, e |-> e]

\* key in d
DictHas(d, key) == \E i \in 1..Len(d.e) : d.e[i].s = key

\* d[key]: the last pair of that key (a repeated key overwrites).
DictGet(d, key) ==
  LET i == CHOOSE i \in 1..Len(d.e) :
             /\ d.e[i].s = key
             /\ \A j \in (i + 1)..Len(d.e) : d.e[j].s # key
  IN d.e[i].e[1]

\* json.dumps of a string: quoted, with the quote and the backslash escaped.
NeedsEscape(c) == c = "\"" \/ c = "\\"

RECURSIVE JsonEscape(_)
JsonEscape(s) ==
  IF \A i \in 1..Len(s) : ~NeedsEscape(s[i]) THEN s
  ELSE LET k == CHOOSE i \in 1..Len(s) :
                  NeedsEscape(s[i]) /\ \A j \in 1..(i - 1) : ~NeedsEscape(s[j])
       IN SubSeq(s, 1, k - 1) \o <<"\\", s[k]>> \o JsonEscape(Drop(s, k + 1))

JsonDumpsStr(s) == <<"\"">> \o JsonEscape(s) \o <<"\"">>

\* json.dumps of an int or a str.
JsonDumpsValue(v) == IF v.t = "int" THEN IntToStr(v.n) ELSE JsonDumpsStr(v.s)

\* json.dumps of a dict of two keys, with the default separators ", " and ": ".
JsonDumpsDict2(k1, v1, k2, v2) ==
  <<"{">> \o JsonDumpsStr(k1) \o <<":", " ">> \o JsonDumpsValue(v1) \o <<",", " ">>
  \o JsonDumpsStr(k2) \o <<":", " ">> \o JsonDumpsValue(v2) \o <<"}">>

JsonWs == {" ", "\t", "\n", "\r"}

\* The first index at or after i that holds no whitespace (Len(s) + 1: none).
SkipWs(s, i) ==
  IF i > Len(s) THEN i
  ELSE CHOOSE j \in i..(Len(s) + 1) :
         /\ j = Len(s) + 1 \/ s[j] \notin JsonWs
         /\ \A k \in i..(j - 1) : s[k] \in JsonWs

ParseFail(i) == [ok |-> FALSE, v |-> JNull, i |-> i]
ParseOk(v, i) == [ok |-> TRUE, v |-> v, i |-> i]

\* The count of backslashes that end right before index j of a string
\* literal whose characters start at index i.
BackslashRun(s, i, j) ==
  CHOOSE n \in 0..(j - i) :
    /\ \A k \in (j - n)..(j - 1) : s[k] = "\\"
    /\ j - n = i \/ s[j - n - 1] # "\\"

\* A backslash that starts an escape, and a character that one escapes.
IsEscapeStart(s, i, j) == s[j] = "\\" /\ BackslashRun(s, i, j) % 2 = 0
IsEscaped(s, i, j) == BackslashRun(s, i, j) % 2 = 1

IsClosingQuote(s, i, j) == s[j] = "\"" /\ ~IsEscaped(s, i, j)

\* The characters of a string literal from index i (after the opening quote) to
\* its closing quote. The escapes of the model's alphabet are \" \\ and \/; a
\* control character in a literal is an error.
ParseStringBody(s, i) ==
  IF ~\E j \in i..Len(s) : IsClosingQuote(s, i, j) THEN ParseFail(i)
  ELSE LET close == CHOOSE j \in i..Len(s) :
                      IsClosingQuote(s, i, j) /\ \A k \in i..(j - 1) : ~IsClosingQuote(s, i, k)
           at == [k \in 1..(close - i) |-> i + k - 1]
           kept == SelectSeq(at, LAMBDA j : ~IsEscapeStart(s, i, j))
       IN IF \E j \in i..(close - 1) :
               \/ s[j] \in {CtlChar, "\t", "\n", "\r"}
               \/ IsEscaped(s, i, j) /\ s[j] \notin {"\"", "\\", "/"}
          THEN ParseFail(i)
          ELSE ParseOk(JStr([k \in 1..Len(kept) |-> s[kept[k]]]), close + 1)

\* The end of the run of digits that starts at index i.
DigitsEnd(s, i) ==
  CHOOSE j \in i..(Len(s) + 1) :
    /\ j = Len(s) + 1 \/ ~IsDigit(s[j])
    /\ \A k \in i..(j - 1) : IsDigit(s[k])

\* int() of the digits s[i..j-1].
RECURSIVE DigitsValue(_, _, _)
DigitsValue(s, i, j) ==
  IF j <= i THEN 0 ELSE DigitsValue(s, i, j - 1) * 10 + DigitVal(s[j - 1])

ParseDigits(s, i) == [n |-> DigitsValue(s, i, DigitsEnd(s, i)), i |-> DigitsEnd(s, i)]

\* A number: -?(0|[1-9][0-9]*) and an optional fraction (then a float).
ParseNumber(s, i) ==
  LET neg == s[i] = "-"
      j == IF neg THEN i + 1 ELSE i
  IN IF j > Len(s) \/ ~IsDigit(s[j]) THEN ParseFail(i)
     ELSE LET d == IF s[j] = "0" THEN [n |-> 0, i |-> j + 1] ELSE ParseDigits(s, j)
              val == IF neg THEN 0 - d.n ELSE d.n
          IN IF d.i + 1 <= Len(s) /\ s[d.i] = "." /\ IsDigit(s[d.i + 1])
             THEN ParseOk(JFloat(val), DigitsEnd(s, d.i + 1))
             ELSE ParseOk(JInt(val), d.i)

\* The constants json.loads takes besides the JSON grammar (parse_constant).
Infinity == <<"I", "n", "f", "i", "n", "i", "t", "y">>

RECURSIVE ParseValue(_, _)
RECURSIVE ParseElements(_, _, _)
RECURSIVE ParseMembers(_, _, _)

\* json.scanner's scan_once at index i.
ParseValue(s, i) ==
  IF i > Len(s) THEN ParseFail(i)
  ELSE IF s[i] = "\"" THEN ParseStringBody(s, i + 1)
  ELSE IF s[i] = "{" THEN
    LET j == SkipWs(s, i + 1) IN
    IF j <= Len(s) /\ s[j] = "}" THEN ParseOk(JDict(<<>>), j + 1)
    ELSE ParseMembers(s, j, <<>>)
  ELSE IF s[i] = "[" THEN
    LET j == SkipWs(s, i + 1) IN
    IF j <= Len(s) /\ s[j] = "]" THEN ParseOk(JList(<<>>), j + 1)
    ELSE ParseElements(s, j, <<>>)
  ELSE IF StartsWithAt(s, i, <<"n", "u", "l", "l">>) THEN ParseOk(JNull, i + 4)
  ELSE IF StartsWithAt(s, i, <<"t", "r", "u", "e">>) THEN ParseOk(JBool(TRUE), i + 4)
  ELSE IF StartsWithAt(s, i, <<"f", "a", "l", "s", "e">>) THEN ParseOk(JBool(FALSE), i + 5)
  ELSE IF StartsWithAt(s, i, <<"N", "a", "N">>) THEN ParseOk(JConstant(<<"N", "a", "N">>), i + 3)
  ELSE IF StartsWithAt(s, i, Infinity) THEN ParseOk(JConstant(Infinity), i + 8)
  ELSE IF StartsWithAt(s, i, <<"-">> \o Infinity)
    THEN ParseOk(JConstant(<<"-">> \o Infinity), i + 9)
  ELSE IF s[i] = "-" \/ IsDigit(s[i]) THEN ParseNumber(s, i)
  ELSE ParseFail(i)

\* The values of an array from index i, to its closing bracket.
ParseElements(s, i, acc) ==
  LET r == ParseValue(s, i) IN
  IF ~r.ok THEN ParseFail(i)
  ELSE LET k == SkipWs(s, r.i) IN
    IF k > Len(s) THEN ParseFail(k)
    ELSE IF s[k] = "]" THEN ParseOk(JList(Append(acc, r.v)), k + 1)
    ELSE IF s[k] = "," THEN ParseElements(s, SkipWs(s, k + 1), Append(acc, r.v))
    ELSE ParseFail(k)

\* The "key": value members of an object from index i, to its closing brace.
ParseMembers(s, i, acc) ==
  IF i > Len(s) \/ s[i] # "\"" THEN ParseFail(i)
  ELSE LET key == ParseStringBody(s, i + 1) IN
    IF ~key.ok THEN ParseFail(i)
    ELSE LET c == SkipWs(s, key.i) IN
      IF c > Len(s) \/ s[c] # ":" THEN ParseFail(c)
      ELSE LET r == ParseValue(s, SkipWs(s, c + 1)) IN
        IF ~r.ok THEN ParseFail(c)
        ELSE LET k == SkipWs(s, r.i)
                 acc2 == Append(acc, JPair(key.v.s, r.v))
             IN IF k > Len(s) THEN ParseFail(k)
                ELSE IF s[k] = "}" THEN ParseOk(JDict(acc2), k + 1)
                ELSE IF s[k] = "," THEN ParseMembers(s, SkipWs(s, k + 1), acc2)
                ELSE ParseFail(k)

\* json.loads(text): one value and nothing but whitespace after it; ok is
\* FALSE for a JSONDecodeError.
JsonLoads(s) ==
  LET r == ParseValue(s, SkipWs(s, 1)) IN
  IF r.ok /\ SkipWs(s, r.i) > Len(s) THEN [ok |-> TRUE, v |-> r.v]
  ELSE [ok |-> FALSE, v |-> JNull]

(***************************************************************************)
(* Cursor codec (db.py: MessageCursor, encode_cursor, decode_cursor)       *)
(***************************************************************************)

\* MessageCursor(last_id, last_date); the fields hold whatever values they
\* were given (a dataclass checks no types).
MessageCursor(last_id, last_date) == [last_id |-> last_id, last_date |-> last_date]

K_last_id == <<"l", "a", "s", "t", "_", "i", "d">>
K_last_date == <<"l", "a", "s", "t", "_", "d", "a", "t", "e">>

\* The JSON text encode_cursor builds before base64.
CursorJson(cursor) ==
  JsonDumpsDict2(K_last_id, cursor.last_id, K_last_date, cursor.last_date)

\* An encoding that leaves out the = padding of base64.
encode_cursor_unpadded(cursor) ==
  SelectSeq(B64Encode(StrEncode(CursorJson(cursor))), LAMBDA c : c # "=")

\* encode_cursor(cursor)
encode_cursor(cursor) == B64Encode(StrEncode(CursorJson(cursor)))

\* The outcome of a call: returned a cursor, returned None, or raised.
Returned(cursor) == [kind |-> "cursor", cursor |-> cursor, exc |-> "-"]
ReturnedNone == [kind |-> "none", cursor |-> MessageCursor(JNull, JNull), exc |-> "-"]
Raised(exc) == [kind |-> "raise", cursor |-> MessageCursor(JNull, JNull), exc |-> exc]

\* data["last_id"], data["last_date"] of the parsed JSON value: a dict without
\* the key raises KeyError, which is caught; a value that is no dict raises
\* TypeError, which the except clause does not list.
CursorFromData(data) ==
  IF data.t = "dict" THEN
    IF DictHas(data, K_last_id) /\ DictHas(data, K_last_date)
    THEN Returned(MessageCursor(DictGet(data, K_last_id), DictGet(data, K_last_date)))
    ELSE ReturnedNone
  ELSE Raised("TypeError")

\* decode_cursor(cursor_str)
decode_cursor(cursor_str) ==
  LET b == B64Decode(cursor_str) IN
  IF ~b.ok THEN ReturnedNone
  ELSE LET u == Utf8Decode(b.bytes) IN
    IF ~u.ok THEN ReturnedNone
    ELSE LET j == JsonLoads(u.text) IN
      IF ~j.ok THEN ReturnedNone
      ELSE CursorFromData(j.v)

(***************************************************************************)
(* Python values and datetimes                                             *)
(*                                                                         *)
(* A Python value that came from JSON, or goes to SQLite as a parameter,   *)
(* is a JSON value record; None is JNull.                                  *)
(***************************************************************************)

None == JNull

\* bool(v): Python's truth value.
Truthy(v) ==
  CASE v.t = "null" -> FALSE
    [] v.t \in {"bool", "int", "float"} -> v.n # 0
    [] v.t = "str" -> Len(v.s) > 0
    [] OTHER -> Len(v.e) > 0

\* A datetime of the model: a time of day on 2024-01-01, in seconds and
\* microseconds after 00:00.
DatePrefix ==
  <<"2", "0", "2", "4", "-", "0", "1", "-", "0", "1", "T", "0", "0", ":", "0", "0", ":">>

DateTime(sec, usec) == [sec |-> sec, usec |-> usec]

\* n as a decimal of exactly w digits.
ZeroPad(n, w) == [i \in 1..(w - Len(NatToStr(n))) |-> "0"] \o NatToStr(n)

\* datetime.isoformat(): the microseconds are written only when not zero.
isoformat(dt) ==
  DatePrefix \o ZeroPad(dt.sec, 2)
  \o (IF dt.usec = 0 THEN <<>> ELSE <<".">> \o ZeroPad(dt.usec, 6))

\* datetime.fromisoformat(s) of a string isoformat wrote.
fromisoformat(s) ==
  DateTime(DigitsValue(s, Len(DatePrefix) + 1, Len(DatePrefix) + 3),
           IF Len(s) > Len(DatePrefix) + 2
           THEN DigitsValue(s, Len(DatePrefix) + 4, Len(s) + 1)
           ELSE 0)

(***************************************************************************)
(* SQLite comparisons of a column with a bound parameter                   *)
(*                                                                         *)
(* A comparison with NULL is NULL; the WHERE clauses of the model use AND  *)
(* and OR only, so NULL is written FALSE. The parameters of the model are  *)
(* None, bool, int and str.                                                *)
(***************************************************************************)

\* Whether sqlite3 can bind the value (a list or a dict raises).
Bindable(v) == v.t \in {"null", "bool", "int", "float", "str"}

\* Text that INTEGER affinity converts to an integer: -?[0-9]+
IsIntegerText(s) ==
  LET i == IF Len(s) > 0 /\ s[1] = "-" THEN 2 ELSE 1
  IN i <= Len(s) /\ \A k \in i..Len(s) : IsDigit(s[k])

IntegerOfText(s) ==
  IF s[1] = "-" THEN 0 - DigitsValue(s, 2, Len(s) + 1) ELSE DigitsValue(s, 1, Len(s) + 1)

\* column = ? for a column of INTEGER affinity.
SqlIntEq(col, v) ==
  CASE v.t = "null" -> FALSE
    [] v.t \in {"int", "bool"} -> col = v.n
    [] v.t = "str" -> IsIntegerText(v.s) /\ col = IntegerOfText(v.s)

\* column < ? for a column of INTEGER affinity (an integer sorts before text).
SqlIntLess(col, v) ==
  CASE v.t = "null" -> FALSE
    [] v.t \in {"int", "bool"} -> col < v.n
    [] v.t = "str" -> IF IsIntegerText(v.s) THEN col < IntegerOfText(v.s) ELSE TRUE

\* The text a parameter is compared as against a column of TEXT affinity.
TextOfParam(v) == IF v.t = "str" THEN v.s ELSE IntToStr(v.n)

\* column = ?, column < ?, column <= ?, column >= ? for a column of TEXT affinity.
SqlTextEq(col, v) == v.t # "null" /\ col = TextOfParam(v)
SqlTextLess(col, v) == v.t # "null" /\ StrLess(col, TextOfParam(v))
SqlTextLessEq(col, v) == v.t # "null" /\ StrLessEq(col, TextOfParam(v))
SqlTextGreaterEq(col, v) == v.t # "null" /\ StrLessEq(TextOfParam(v), col)

\* ASCII lower case, the case folding of LIKE and of the FTS5 tokenizer.
Lower(c) == IF c \in AsciiChars /\ Ord(c) >= 65 /\ Ord(c) <= 90 THEN Chr(Ord(c) + 32) ELSE c

\* text LIKE pattern: "%" is any run of characters, "_" any one character,
\* letters compare without case.
RECURSIVE LikeMatch(_, _)
LikeMatch(t, p) ==
  IF Len(p) = 0 THEN Len(t) = 0
  ELSE IF Head(p) = "%" THEN \E k \in 1..(Len(t) + 1) : LikeMatch(Drop(t, k), Tail(p))
  ELSE IF Len(t) = 0 THEN FALSE
  ELSE (Head(p) = "_" \/ Lower(Head(p)) = Lower(Head(t))) /\ LikeMatch(Tail(t), Tail(p))

\* column LIKE ? for a nullable text column.
SqlLike(col, pattern) == col.t = "str" /\ LikeMatch(col.s, pattern)

\* f"%{keyword}%"
LikePattern(keyword) == <<"%">> \o TextOfParam(keyword) \o <<"%">>

(***************************************************************************)
(* The messages table and its full-text index (db.py: _init_schema)        *)
(*                                                                         *)
(* A row of messages is [id, chat_id, sender_id, date, text]: date is the  *)
(* stored ISO text, text a str value or None. The columns reply_to_msg_id, *)
(* is_forwarded and raw_json are payload that no query of the model reads. *)
(* The index is a set of entries [rowid, tokens].                          *)
(***************************************************************************)

\* The Message dataclass; date is a datetime.
Message(id, chat_id, sender_id, date, text) ==
  [id |-> id, chat_id |-> chat_id, sender_id |-> sender_id, date |-> date, text |-> text]

\* The tuple insert_message and insert_messages_batch bind for a message.
RowOfMessage(m) ==
  [id |-> m.id, chat_id |-> m.chat_id, sender_id |-> m.sender_id,
   date |-> isoformat(m.date), text |-> m.text]

\* The Message a query builds from a row.
MessageOfRow(row) ==
  [id |-> row.id, chat_id |-> row.chat_id, sender_id |-> row.sender_id,
   date |-> fromisoformat(row.date), text |-> row.text]

\* serialize_message(message)
serialize_message(m) ==
  [id |-> m.id, chat_id |-> m.chat_id, sender_id |-> m.sender_id,
   date |-> isoformat(m.date), text |-> m.text]

IsAlnum(c) ==
  /\ c \in AsciiChars
  /\ \/ IsDigit(c)
     \/ Ord(Lower(c)) >= 97 /\ Ord(Lower(c)) <= 122

\* The tokens FTS5's default tokenizer indexes for a text: its maximal runs of
\* letters and digits, in lower case. NULL has none.
Tokens(text) ==
  IF text.t # "str" THEN {}
  ELSE LET t == text.s IN
    { [k \in 1..(j - i + 1) |-> Lower(t[i + k - 1])] :
        <<i, j>> \in { w \in (1..Len(t)) \X (1..Len(t)) :
                        /\ w[1] <= w[2]
                        /\ \A k \in w[1]..w[2] : IsAlnum(t[k])
                        /\ w[1] = 1 \/ ~IsAlnum(t[w[1] - 1])
                        /\ w[2] = Len(t) \/ ~IsAlnum(t[w[2] + 1]) } }

\* INSERT INTO messages_fts(rowid, text) VALUES (rowid, text)
FtsInsert(fts, rowid, text) == fts \cup {[rowid |-> rowid, tokens |-> Tokens(text)]}

\* INSERT INTO messages_fts(messages_fts, rowid, text) VALUES ('delete', rowid, text):
\* removes the entry that was indexed for this rowid with this text.
FtsDelete(fts, rowid, text) == fts \ {[rowid |-> rowid, tokens |-> Tokens(text)]}

\* Trigger messages_ai, AFTER INSERT ON messages.
messages_ai(fts, new) == FtsInsert(fts, new.id, new.text)

\* Trigger messages_ad, AFTER DELETE ON messages.
messages_ad(fts, old) == FtsDelete(fts, old.id, old.text)

\* An update trigger that indexes the new text and leaves the old entry.
messages_au_insert_only(fts, old, new) == FtsInsert(fts, new.id, new.text)

\* Trigger messages_au, AFTER UPDATE ON messages.
messages_au(fts, old, new) == FtsInsert(FtsDelete(fts, old.id, old.text), new.id, new.text)

\* The database as one connection sees it: the tables and the index.
Database(msgs, fts, chts) == [messages |-> msgs, messages_fts |-> fts, chats |-> chts]

\* INSERT OR REPLACE INTO messages: a row whose id is in the table takes
\* the place of that row (no delete trigger runs for it).
SqlReplaceMessage(db, row) ==
  [ok |-> TRUE,
   db |-> [db EXCEPT !.messages = {r \in @ : r.id # row.id} \cup {row},
                     !.messages_fts = messages_ai(@, row)]]

\* INSERT INTO messages (...) VALUES (...): id is the primary key, so a row
\* whose id is in the table fails (IntegrityError) and changes nothing.
SqlInsertMessage(db, row) ==
  IF \E r \in db.messages : r.id = row.id
  THEN [ok |-> FALSE, db |-> db]
  ELSE [ok |-> TRUE,
        db |-> [db EXCEPT !.messages = @ \cup {row},
                          !.messages_fts = messages_ai(@, row)]]

\* executemany(INSERT ..., data): the statement runs for each tuple in turn
\* and stops at the first one that fails; the rows inserted before it stay in
\* the open transaction.
RECURSIVE SqlExecuteManyInsert(_, _)
SqlExecuteManyInsert(db, data) ==
  IF Len(data) = 0 THEN [ok |-> TRUE, db |-> db]
  ELSE LET r == SqlInsertMessage(db, Head(data)) IN
    IF r.ok THEN SqlExecuteManyInsert(r.db, Tail(data)) ELSE r

\* UPDATE messages SET text = ? WHERE id = ?
SqlUpdateMessageText(db, id, text) ==
  IF \E r \in db.messages : r.id = id
  THEN LET old == CHOOSE r \in db.messages : r.id = id
           new == [old EXCEPT !.text = text]
       IN [db EXCEPT !.messages = (@ \ {old}) \cup {new},
                     !.messages_fts = messages_au(@, old, new)]
  ELSE db

\* DELETE FROM messages WHERE id = ?
SqlDeleteMessage(db, id) ==
  IF \E r \in db.messages : r.id = id
  THEN LET old == CHOOSE r \in db.messages : r.id = id
       IN [db EXCEPT !.messages = @ \ {old},
                     !.messages_fts = messages_ad(@, old)]
  ELSE db

\* INSERT OR IGNORE INTO chats: a row whose id is in the table is dropped.
SqlInsertChatOrIgnore(db, chat) ==
  IF \E c \in db.chats : c.id = chat.id THEN db ELSE [db EXCEPT !.chats = @ \cup {chat}]

\* INSERT INTO chats ... ON CONFLICT(id) DO UPDATE SET title, username
SqlUpsertChat(db, chat) ==
  [db EXCEPT !.chats = {c \in @ : c.id # chat.id} \cup {chat}]

\* INSERT INTO users ... ON CONFLICT(id) DO UPDATE SET username, first_name,
\* last_name
SqlUpsertUser(table, user) == {u \in table : u.id # user.id} \cup {user}

(***************************************************************************)
(* Message queries (db.py: get_messages_with_filters, count_messages)      *)
(***************************************************************************)

\* The filters of a query: each is a value, None when not given.
Filters(chat_id, sender_id, keyword, date_from, date_to) ==
  [chat_id |-> chat_id, sender_id |-> sender_id, keyword |-> keyword,
   date_from |-> date_from, date_to |-> date_to]

\* The conditions both queries build, ANDed: "1=1" when there is none.
FilterConditions(row, f) ==
  /\ f.chat_id.t # "null" => SqlIntEq(row.chat_id, f.chat_id)
  /\ f.sender_id.t # "null" => SqlIntEq(row.sender_id, f.sender_id)
  /\ Truthy(f.keyword) => SqlLike(row.text, LikePattern(f.keyword))
  /\ Truthy(f.date_from) => SqlTextGreaterEq(row.date, f.date_from)
  /\ Truthy(f.date_to) => SqlTextLessEq(row.date, f.date_to)

\* The parameters the filters bind.
FilterParams(f) ==
  {f.chat_id, f.sender_id}
  \cup (IF Truthy(f.keyword) THEN {f.keyword} ELSE {})
  \cup (IF Truthy(f.date_from) THEN {f.date_from} ELSE {})
  \cup (IF Truthy(f.date_to) THEN {f.date_to} ELSE {})

\* A cursor condition on the date alone.
CursorConditionDateOnly(row, cursor_obj) == SqlTextLess(row.date, cursor_obj.last_date)

\* (m.date < ? OR (m.date = ? AND m.id < ?)) with last_date, last_date, last_id
CursorCondition(row, cursor_obj) ==
  \/ SqlTextLess(row.date, cursor_obj.last_date)
  \/ /\ SqlTextEq(row.date, cursor_obj.last_date)
     /\ SqlIntLess(row.id, cursor_obj.last_id)

\* The WHERE clause of get_messages_with_filters; d is decode_cursor's outcome
\* and the cursor condition is added when it returned a cursor.
WhereClause(row, f, d) ==
  /\ FilterConditions(row, f)
  /\ d.kind = "cursor" => CursorCondition(row, d.cursor)

\* ORDER BY m.date DESC, m.id DESC: whether row a comes before row b.
OrderedBefore(a, b) ==
  \/ StrLess(b.date, a.date)
  \/ a.date = b.date /\ a.id > b.id

\* The rows of a set by the number of rows that come before each.
RowsByRank(rows, rank) ==
  [i \in 1..Cardinality(rows) |-> CHOOSE r \in rows : rank[r] = i - 1]

\* The rows of a set in that order; the set and the ranks are computed once.
RowsInOrder(rows) ==
  CHOOSE s \in { RowsByRank(rows, rank) :
                   rank \in {[r \in rows |-> Cardinality({x \in rows : OrderedBefore(x, r)})]} } :
    TRUE

OrderByDateIdDesc(rows) == CHOOSE s \in { RowsInOrder(rs) : rs \in {rows} } : TRUE

\* LIMIT n of an ordered result.
Limit(rows, n) == SubSeq(rows, 1, IF Len(rows) < n THEN Len(rows) ELSE n)

\* What a query call gives: a result, or an exception.
QueryResult(msgs, has_more, next_cursor) ==
  [kind |-> "ok", exc |-> "-", messages |-> msgs, has_more |-> has_more,
   next_cursor |-> next_cursor]
QueryRaised(exc) ==
  [kind |-> "raise", exc |-> exc, messages |-> <<>>, has_more |-> FALSE,
   next_cursor |-> None]

\* has_more for a page that is exactly full.
HasMoreWhenFull(rows, limit) == Len(rows) >= limit

\* has_more = len(rows) > limit
HasMore(rows, limit) == Len(rows) > limit

\* A next cursor made from the first message of the page.
NextCursorOfFirst(msgs, has_more) ==
  IF has_more /\ Len(msgs) > 0
  THEN JStr(encode_cursor(MessageCursor(JInt(msgs[1].id), JStr(isoformat(msgs[1].date)))))
  ELSE None

\* The next cursor of a page: made from the last message when has_more.
NextCursor(msgs, has_more) ==
  IF has_more /\ Len(msgs) > 0
  THEN JStr(encode_cursor(MessageCursor(JInt(msgs[Len(msgs)].id),
                                        JStr(isoformat(msgs[Len(msgs)].date)))))
  ELSE None

\* cursor_obj = decode_cursor(cursor) if cursor else None
CursorObj(cursor) == IF Truthy(cursor) THEN decode_cursor(cursor.s) ELSE ReturnedNone

\* The parameters the query binds besides the LIMIT.
QueryParams(f, d) ==
  FilterParams(f)
  \cup (IF d.kind = "cursor" THEN {d.cursor.last_date, d.cursor.last_id} ELSE {})

\* The rows fetchall() gives: the matching rows, ordered, at most limit + 1.
FetchAll(table, f, d, limit) ==
  Limit(OrderByDateIdDesc({r \in table : WhereClause(r, f, d)}), limit + 1)

\* if has_more: rows = rows[:limit]
TrimRows(rows, limit) == IF HasMore(rows, limit) THEN SubSeq(rows, 1, limit) ELSE rows

\* The Message objects made of the rows.
MessagesOfRows(rows) == [i \in 1..Len(rows) |-> MessageOfRow(rows[i])]

\* The dictionary returned for a page of messages.
PageResult(msgs, has_more) ==
  CHOOSE res \in { QueryResult(ms, has_more, NextCursor(ms, has_more)) : ms \in {msgs} } : TRUE

\* The result made of the fetched rows.
ResultOfRows(fetched, limit) ==
  PageResult(MessagesOfRows(TrimRows(fetched, limit)), HasMore(fetched, limit))

\* get_messages_with_filters after decode_cursor gave d.
ExecuteQuery(table, f, limit, d) ==
  IF d.kind = "raise" THEN QueryRaised(d.exc)
  ELSE IF \E v \in QueryParams(f, d) : ~Bindable(v) THEN QueryRaised("sqlite3.Error")
  ELSE CHOOSE res \in { ResultOfRows(fetched, limit) :
                          fetched \in {FetchAll(table, f, d, limit)} } : TRUE

\* get_messages_with_filters(chat_id, ..., limit, cursor) over a table:
\* limit is an int, cursor a str or None.
get_messages_with_filters(table, f, limit, cursor) ==
  CHOOSE res \in { ExecuteQuery(table, ff, limit, d) :
                    ff \in {f}, d \in {CursorObj(cursor)} } : TRUE

\* A count of all rows, whatever the filters.
count_messages_unfiltered(table, f) ==
  [kind |-> "ok", exc |-> "-", count |-> Cardinality(table)]

\* SELECT COUNT(m.text): a count of the rows whose text is not NULL.
count_messages_with_text(table, f) ==
  [kind |-> "ok", exc |-> "-",
   count |-> Cardinality({r \in table : FilterConditions(r, f) /\ r.text # None})]

\* count_messages(chat_id, ..., date_to) over a table.
count_messages(table, f) ==
  IF \E v \in FilterParams(f) : ~Bindable(v)
  THEN [kind |-> "raise", exc |-> "sqlite3.Error", count |-> 0]
  ELSE [kind |-> "ok", exc |-> "-",
        count |-> Cardinality({r \in table : FilterConditions(r, f)})]

(***************************************************************************)
(* getMessages (server.py: handle_get_messages)                            *)
(***************************************************************************)

JSONRPC_INVALID_PARAMS == -32602
DEFAULT_MESSAGES_LIMIT == 50
MAX_MESSAGES_LIMIT == 200

\* A key the params object does not hold.
Absent == [t |-> "absent", n |-> 0, s |-> <<>>, e |-> <<>>]

\* params.get(key, default)
ParamGet(v, default) == IF v.t = "absent" THEN default ELSE v

\* The params object of a getMessages request.
GetMessagesParams(f, limit, cursor) == [filters |-> f, limit |-> limit, cursor |-> cursor]

\* isinstance(v, int): bool is a subclass of int.
IsInstanceInt(v) == v.t \in {"int", "bool"}

\* A limit passed on as it is.
Unclamped(a, b) == a

\* min(a, b)
Min(a, b) == IF a < b THEN a ELSE b

\* raise JSONRPCError(code, message): the class JSONRPCError does not derive
\* from BaseException, so the raise statement itself raises TypeError.
RaiseJSONRPCError(code) == "TypeError"

\* The checks of handle_get_messages before it calls the store: the limit it
\* passes on, or the exception it raises.
ValidateGetMessages(params) ==
  LET limit == ParamGet(params.limit, JInt(DEFAULT_MESSAGES_LIMIT))
      cursor == ParamGet(params.cursor, None)
  IN IF ~IsInstanceInt(limit)
     THEN [ok |-> FALSE, exc |-> RaiseJSONRPCError(JSONRPC_INVALID_PARAMS), limit |-> 0]
     ELSE IF Min(limit.n, MAX_MESSAGES_LIMIT) <= 0
     THEN [ok |-> FALSE, exc |-> RaiseJSONRPCError(JSONRPC_INVALID_PARAMS), limit |-> 0]
     ELSE IF cursor.t # "null" /\ cursor.t # "str"
     THEN [ok |-> FALSE, exc |-> RaiseJSONRPCError(JSONRPC_INVALID_PARAMS), limit |-> 0]
     ELSE [ok |-> TRUE, exc |-> "-", limit |-> Min(limit.n, MAX_MESSAGES_LIMIT)]

\* The filters handle_get_messages passes on: params.get(key) of each.
FiltersOfParams(params) ==
  Filters(ParamGet(params.filters.chat_id, None), ParamGet(params.filters.sender_id, None),
          ParamGet(params.filters.keyword, None), ParamGet(params.filters.date_from, None),
          ParamGet(params.filters.date_to, None))

\* What handle_get_messages returns, or the exception that leaves it.
HandlerResult(list, total_count) ==
  [kind |-> "result", exc |-> "-",
   messages |-> [i \in 1..Len(list.messages) |-> serialize_message(list.messages[i])],
   next_cursor |-> list.next_cursor, has_more |-> list.has_more,
   total_count |-> total_count]
HandlerRaised(exc) ==
  [kind |-> "raise", exc |-> exc, messages |-> <<>>, next_cursor |-> None,
   has_more |-> FALSE, total_count |-> 0]

(***************************************************************************)
(* State                                                                   *)
(***************************************************************************)

VARIABLES
  messages,       \* the messages table as the shared connection sees it
  messages_fts,   \* the full-text index as the shared connection sees it
  chats,          \* the chats table as the shared connection sees it
  durable,        \* the database as of the last commit
  last_write,     \* the last batch, UPDATE or DELETE: its rows, whether it failed
  client,         \* a client of getMessages: its request parameters, what it received
  req,            \* the getMessages request in the handler, between its awaits
  codec_in,       \* the argument of the last cursor codec call
  codec_out,      \* what that call returned or raised
  db_connection,  \* the global _db_connection: a handle, or 0 for None
  init_lock,      \* the task that holds _init_lock, or 0
  handles,        \* the connections opened so far; a handle is an index
  tasks,          \* each task inside get_db_connection or close_db: where it stands
  ws,             \* a WebSocket client: whether its connection is open, its last frame
  users,          \* the users table
  media,          \* the media table
  found,          \* the last search, get_all_chats or search_users call and its result
  pager,          \* a client of getMedia that follows next_cursor: what it received
  attempt,        \* the insert or upsert call that was made last, if nothing followed it
  backfill        \* the backfill_messages call: where it stands, its local variables

storeVars == <<messages, messages_fts, chats, durable, last_write>>
queryVars == <<client, req>>
codecVars == <<codec_in, codec_out>>
connVars == <<db_connection, init_lock, handles, tasks>>
rpcVars == <<ws>>
extraVars == <<users, media, found, pager, attempt, backfill>>
vars ==
  <<messages, messages_fts, chats, durable, last_write, client, req, codec_in, codec_out,
    db_connection, init_lock, handles, tasks, ws, users, media, found, pager,
    attempt, backfill>>

\* The database the connection sees.
View == Database(messages, messages_fts, chats)

(***************************************************************************)
(* Bounds and inputs                                                       *)
(***************************************************************************)

\* Message ids are 1..MaxId; page sizes are 1..MaxId as well.
MaxId == 3

\* The tasks that call get_db_connection and close_db are 1..NumTasks.
NumTasks == 2

\* No more than MaxHandles connections are opened in a behaviour.
MaxHandles == 3

Tasks == 1..NumTasks

\* The datetimes of the model's messages: two half-second ticks, the second
\* of which has no microseconds.
DateTimes == {DateTime(0, 500000), DateTime(1, 0)}

NoFilters == Filters(None, None, None, None, None)

\* The messages the inserts of the pagination model draw from.
PagingPool == { Message(id, 1, 1, dt, None) : id \in 1..MaxId, dt \in DateTimes }

\* The filters and page sizes of the pagination runs: no filter, or date_from
\* set to the later of the two dates.
PagingFilters ==
  {NoFilters, Filters(None, None, None, JStr(isoformat(DateTime(1, 0))), None)}
PageSizes == 1..MaxId

\* Cursor strings a client makes up: base64 of the JSON texts 5 and {}, and a
\* string that is not base64.
ProbeCursors == { <<"N", "Q", "=", "=">>, <<"e", "3", "0", "=">>, <<"a", "b", "c">> }

(***************************************************************************)
(* Initial state: the schema is created and every table is empty.          *)
(***************************************************************************)

NoWrite == [op |-> "none", failed |-> FALSE, rows |-> {}, new |-> {}]

NoParams == GetMessagesParams(NoFilters, Absent, Absent)

NoReq ==
  [state |-> "none", params |-> NoParams, limit |-> 0, list |-> QueryRaised("-"),
   n_match |-> 0, nocursor |-> QueryRaised("-"), first_table |-> {}]

IdleClient ==
  [phase |-> "idle", kind |-> "-", params |-> NoParams, received |-> <<>>,
   pages |-> 0, first_table |-> {}, stable |-> TRUE, response |-> HandlerRaised("-"),
   reference |-> HandlerRaised("-")]

StoreInit ==
  /\ messages = {}
  /\ messages_fts = {}
  /\ chats = {}
  /\ durable = Database({}, {}, {})
  /\ last_write = NoWrite

QueryInit ==
  /\ client = IdleClient
  /\ req = NoReq

NoCodecCall == [str |-> <<>>, encoded |-> FALSE, cursor |-> MessageCursor(JNull, JNull)]

CodecInit ==
  /\ codec_in = NoCodecCall
  /\ codec_out = ReturnedNone

IdleTask == [pc |-> "idle", h |-> 0, result |-> "-", ready |-> FALSE]

\* A connection: whether it is open, whether _init_schema has completed on
\* it, and whether a statement of its initialization has raised.
Handle(open, initialized) == [open |-> open, initialized |-> initialized, failed |-> FALSE]

\* The process has started: no connection yet.
ConnInit ==
  /\ db_connection = 0
  /\ init_lock = 0
  /\ handles = <<>>
  /\ tasks = [t \in Tasks |-> IdleTask]

\* TeleConvoApp.initialize() has opened the connection.
ConnReady ==
  /\ db_connection = 1
  /\ init_lock = 0
  /\ handles = <<Handle(TRUE, TRUE)>>
  /\ tasks = [t \in Tasks |-> IdleTask]

\* A frame the connection handled: what json.loads made of it, each request
\* object in it with what handle_jsonrpc_request did, and the frames sent back.
Entry(parsed, handled, sent) == [parsed |-> parsed, handled |-> handled, sent |-> sent]
NoEntry == Entry([ok |-> FALSE, v |-> JNull], <<>>, <<>>)

\* The server listens; no client is connected. last is the last frame the
\* server handled for the client, malformed whether its text was no JSON
\* text, garbled whether such a frame has arrived on the connection.
\* The loop of handle_websocket_client seen step by step: where it is, the
\* frames that arrived (parsed), the numbers of those not yet taken, the frame
\* in hand with its request objects and the number of them handled, and the
\* log of the requests executed and the frames sent.
NoWire ==
  [pc |-> "none", arrivals |-> <<>>, inbox |-> <<>>, frame |-> 0, todo |-> <<>>,
   done |-> 0, log |-> <<>>]

NoConnection ==
  [open |-> FALSE, garbled |-> FALSE, malformed |-> FALSE, last |-> NoEntry, wire |-> NoWire]

RpcInit == ws = NoConnection

\* No search, get_all_chats or search_users call has returned yet.
NoFound ==
  [called |-> FALSE, op |-> "-", query |-> <<>>, date_from |-> JNull, date_to |-> JNull, limit |-> 0,
   raised |-> "-", messages |-> <<>>, count |-> 0, has_more |-> FALSE]

\* No client pages through the media.
NoPager ==
  [phase |-> "idle", chat_id |-> JNull, limit |-> 0, cursor |-> JNull, received |-> <<>>,
   pages |-> 0, has_more |-> FALSE, next_cursor |-> JNull]

\* No insert or upsert call was made last.
NoAttempt ==
  [called |-> FALSE, op |-> "-", row |-> {}, raised |-> "-", existing |-> {}, indexed |-> {}]

\* backfill_messages was not called: offset_id, total_fetched, all_messages
\* and processed_users are its local variables, chunk the list the last fetch
\* returned and at the number of its messages processed; fetched are the ids
\* the fetches returned so far, retries the fetches of the present chunk that
\* raised, faults the store calls that raised.
NoBackfill ==
  [pc |-> "idle", limit |-> JNull, offset_id |-> 0, total_fetched |-> 0,
   all_messages |-> <<>>, processed_users |-> {}, chunk |-> <<>>, at |-> 0,
   fetched |-> {}, retries |-> 0, faults |-> 0]

\* The users and media tables are empty.
ExtraInit ==
  /\ attempt = NoAttempt
  /\ users = {}
  /\ media = {}
  /\ found = NoFound
  /\ pager = NoPager
  /\ backfill = NoBackfill

InitProcess == StoreInit /\ QueryInit /\ CodecInit /\ ConnInit /\ RpcInit /\ ExtraInit

Init == StoreInit /\ QueryInit /\ CodecInit /\ ConnReady /\ RpcInit /\ ExtraInit

(***************************************************************************)
(* Writes (db.py: insert_message, insert_messages_batch,                   *)
(* insert_or_update_chat)                                                  *)
(***************************************************************************)

\* The connection's view becomes db.
SetView(db) ==
  /\ messages' = db.messages
  /\ messages_fts' = db.messages_fts
  /\ chats' = db.chats

\* insert_message(message): the INSERT, then commit; when the INSERT raises,
\* the commit is not reached.
insert_message(m) ==
  LET r == SqlInsertMessage(View, RowOfMessage(m)) IN
  /\ SetView(r.db)
  /\ durable' = IF r.ok THEN r.db ELSE durable
  /\ last_write' = NoWrite

\* insert_messages_batch(messages): nothing for an empty list; else the
\* executemany, then commit; when the executemany raises, neither a commit nor
\* a rollback is reached.
insert_messages_batch(ms) ==
  IF Len(ms) = 0 THEN UNCHANGED storeVars
  ELSE LET data == [i \in 1..Len(ms) |-> RowOfMessage(ms[i])]
           r == SqlExecuteManyInsert(View, data)
       IN /\ SetView(r.db)
          /\ durable' = IF r.ok THEN r.db ELSE durable
          /\ last_write' = [op |-> "insert_messages_batch", failed |-> ~r.ok,
                            rows |-> {data[i] : i \in 1..Len(data)},
                            new |-> {data[i] : i \in {k \in 1..Len(data) :
                                       \A x \in messages : x.id # data[k].id}}]

\* insert_or_update_chat(chat): the upsert, then commit.
insert_or_update_chat(chat) ==
  LET db == SqlUpsertChat(View, chat) IN
  /\ SetView(db)
  /\ durable' = db
  /\ UNCHANGED last_write

\* UPDATE messages SET text = ? WHERE id = ? and commit, by any user of the
\* database: the statement that fires the trigger messages_au.
update_message_text(id, text) ==
  LET db == SqlUpdateMessageText(View, id, text) IN
  /\ SetView(db)
  /\ durable' = db
  /\ last_write' = [op |-> "update", failed |-> FALSE,
                     rows |-> {r \in messages : r.id = id},
                     new |-> {r \in db.messages : r.id = id}]

\* DELETE FROM messages WHERE id = ? and commit, by any user of the database:
\* the statement that fires the trigger messages_ad.
delete_message(id) ==
  LET db == SqlDeleteMessage(View, id) IN
  /\ SetView(db)
  /\ durable' = db
  /\ last_write' = [op |-> "delete", failed |-> FALSE,
                     rows |-> {r \in messages : r.id = id}, new |-> {}]

(***************************************************************************)
(* A client paging through getMessages                                     *)
(***************************************************************************)

\* The client sends its first request: of a pagination run (no cursor), or a
\* single request with a cursor string of its own making.
ClientStart(kind, params) ==
  /\ client.phase = "idle"
  /\ client' = [IdleClient EXCEPT !.phase = "waiting", !.kind = kind, !.params = params]
  /\ req' = [NoReq EXCEPT !.state = "received", !.params = params]
  /\ UNCHANGED <<storeVars, codecVars, connVars, rpcVars, extraVars>>

\* The response reaches the client; in a pagination run with has_more it sends
\* the next request, with the cursor it was given.
Respond(response, reference) ==
  LET more == client.kind = "run" /\ response.kind = "result" /\ response.has_more
      next == [client.params EXCEPT !.cursor = response.next_cursor]
  IN /\ client' = [client EXCEPT
                     !.phase = IF more THEN "waiting" ELSE "done",
                     !.params = IF more THEN next ELSE @,
                     !.received = @ \o response.messages,
                     !.pages = @ + 1,
                     !.first_table = IF client.pages = 0 THEN req.first_table ELSE @,
                     !.stable = messages = (IF client.pages = 0 THEN req.first_table
                                            ELSE client.first_table),
                     !.response = response,
                     !.reference = reference]
     /\ req' = IF more THEN [NoReq EXCEPT !.state = "received", !.params = next] ELSE NoReq

\* The response to a request that an exception of the first query ended.
ListRaised(exc, nocursor, f) ==
  /\ client' = [client EXCEPT !.phase = "done", !.pages = @ + 1,
                  !.response = HandlerRaised(exc),
                  !.reference =
                    IF nocursor.kind = "raise" THEN HandlerRaised(nocursor.exc)
                    ELSE HandlerResult(nocursor, count_messages(messages, f).count)]
  /\ req' = NoReq

\* The request after its first query returned list. n_match is the number of
\* rows that met the WHERE clause of that query, nocursor what the query gives
\* without a cursor.
Listed(limit, list, n_match, nocursor) ==
  /\ req' = [req EXCEPT !.state = "listed", !.limit = limit, !.list = list,
               !.n_match = n_match, !.nocursor = nocursor, !.first_table = messages]
  /\ UNCHANGED client

ListStep(v, f, cursor, list, nocursor) ==
  IF ~v.ok THEN Respond(HandlerRaised(v.exc), HandlerRaised(v.exc))
  ELSE IF list.kind = "raise" THEN ListRaised(list.exc, nocursor, f)
  ELSE \E d \in {CursorObj(cursor)} :
         Listed(v.limit, list, Cardinality({r \in messages : WhereClause(r, f, d)}),
                nocursor)

\* The first query of a request with valid parameters.
ListQuery(v, f, cursor) ==
  IF ~v.ok THEN Respond(HandlerRaised(v.exc), HandlerRaised(v.exc))
  ELSE \E nocursor \in {get_messages_with_filters(messages, f, v.limit, None)} :
         \E list \in {IF cursor = None THEN nocursor
                       ELSE get_messages_with_filters(messages, f, v.limit, cursor)} :
           ListStep(v, f, cursor, list, nocursor)

\* handle_get_messages up to its first query: the checks, then
\* get_messages_with_filters. An exception ends the request.
GetMessagesList ==
  /\ req.state = "received"
  /\ \E v \in {ValidateGetMessages(req.params)}, f \in {FiltersOfParams(req.params)} :
       ListQuery(v, f, ParamGet(req.params.cursor, None))
  /\ UNCHANGED <<storeVars, codecVars, connVars, rpcVars, extraVars>>

\* The result of the request after its second query returned c.
CountStep(c) ==
  IF c.kind = "raise" THEN Respond(HandlerRaised(c.exc), HandlerRaised(c.exc))
  ELSE Respond(HandlerResult(req.list, c.count), HandlerResult(req.nocursor, c.count))

\* handle_get_messages from its second query: count_messages, then the result.
GetMessagesCount ==
  /\ req.state = "listed"
  /\ CountStep(count_messages(messages, FiltersOfParams(req.params)))
  /\ UNCHANGED <<storeVars, codecVars, connVars, rpcVars, extraVars>>

InsertMessage(m) == insert_message(m) /\ UNCHANGED <<queryVars, codecVars, connVars, rpcVars, extraVars>>

InsertMessagesBatch(ms) == insert_messages_batch(ms) /\ UNCHANGED <<queryVars, codecVars, connVars, rpcVars, extraVars>>

InsertOrUpdateChat(chat) == insert_or_update_chat(chat) /\ UNCHANGED <<queryVars, codecVars, connVars, rpcVars, extraVars>>

StartRun ==
  \E f \in PagingFilters, limit \in PageSizes :
    ClientStart("run", GetMessagesParams(f, JInt(limit), Absent))

StartProbe ==
  \E limit \in PageSizes, c \in ProbeCursors :
    ClientStart("probe", GetMessagesParams(NoFilters, JInt(limit), JStr(c)))

PagingInsert == \E m \in PagingPool : InsertMessage(m)

PagingNext ==
  \/ PagingInsert
  \/ StartRun
  \/ StartProbe
  \/ GetMessagesList
  \/ GetMessagesCount

\* Pagination with inserts running between the steps of the requests.
SpecPaging == Init /\ [][PagingNext]_vars

(***************************************************************************)
(* The store and its full-text index                                       *)
(***************************************************************************)

IndexTexts == {None, JStr(<<"h", "i">>), JStr(<<"H", "i", " ", "y", "o">>)}

\* The messages the writes of the index model draw from.
IndexPool == { Message(id, 1, 1, DateTime(1, 0), text) : id \in 1..MaxId, text \in IndexTexts }

\* The lists insert_messages_batch is called with: none, or two messages
\* with a text.
IndexBatches ==
  {<<>>} \cup { <<w[1], w[2]>> : w \in { m \in IndexPool : Cardinality(Tokens(m.text)) = 1 }
                                       \X { m \in IndexPool : Cardinality(Tokens(m.text)) = 1 } }

IndexChats == { [id |-> 1, title |-> JStr(<<"a">>), username |-> None] }

IndexInsert == \E m \in IndexPool : InsertMessage(m)

IndexInsertBatch == \E ms \in IndexBatches : InsertMessagesBatch(ms)

IndexUpsertChat == \E chat \in IndexChats : InsertOrUpdateChat(chat)

IndexUpdate ==
  \E id \in 1..MaxId, text \in IndexTexts :
    update_message_text(id, text) /\ UNCHANGED <<queryVars, codecVars, connVars, rpcVars, extraVars>>

IndexDelete ==
  \E id \in 1..MaxId : delete_message(id) /\ UNCHANGED <<queryVars, codecVars, connVars, rpcVars, extraVars>>

IndexNext ==
  \/ IndexInsert
  \/ IndexInsertBatch
  \/ IndexUpsertChat
  \/ IndexUpdate
  \/ IndexDelete

SpecIndex == Init /\ [][IndexNext]_vars

\* The index of a database holds, for each message with a text, exactly one
\* entry, made of that text, and no entry for an id that has no message.
IndexMirrors(db) ==
  /\ \A r \in db.messages :
       r.text.t = "str" =>
         {e \in db.messages_fts : e.rowid = r.id}
           = {[rowid |-> r.id, tokens |-> Tokens(r.text)]}
  /\ \A e \in db.messages_fts : \E r \in db.messages : r.id = e.rowid

\* C5: after every committed change the full-text index holds exactly one
\* entry for each message whose text is not null, with its current text,
\* and no entry for an id that was deleted or never existed.
C5_IndexMirrorsMessages == IndexMirrors(View) /\ IndexMirrors(durable)

\* An UPDATE has just changed the words of a message, next to a message
\* without text and an id without message.
C5_Witness ==
  /\ last_write.op = "update"
  /\ \E o \in last_write.rows : \E n \in last_write.new :
       /\ Tokens(o.text) # Tokens(n.text)
       /\ Tokens(o.text) # {}
       /\ n \in messages
  /\ \E r \in messages : r.text = None
  /\ Cardinality(messages) < MaxId

\* C6: a call of insert_messages_batch stores all its messages or none: after
\* a call that failed, none of the messages it was to add is in the table,
\* also not after a later commit by another operation; after a call that
\* succeeded, all are.
C6_BatchAllOrNothing ==
  last_write.op = "insert_messages_batch" =>
    IF last_write.failed
    THEN \A r \in last_write.new : r \notin messages /\ r \notin durable.messages
    ELSE last_write.rows \subseteq messages /\ last_write.rows \subseteq durable.messages

(***************************************************************************)
(* The cursor codec on its own                                             *)
(***************************************************************************)

\* The cursors the store makes: an integer id and the isoformat of a date.
CodecCursors ==
  { MessageCursor(JInt(id), JStr(isoformat(dt))) :
      id \in ((-1)..MaxId) \cup {1000000}, dt \in DateTimes \cup {DateTime(59, 1)} }

\* JSON texts that are no cursor: a number, a list, null, a string, a float,
\* an object without keys, an object with one of the two keys.
NonCursorJson ==
  { <<"5">>, <<"[", "]">>, <<"n", "u", "l", "l">>, <<"\"", "x", "\"">>,
    <<"1", ".", "5">>, <<"{", "}">>,
    <<"{", "\"">> \o K_last_id \o <<"\"", ":", " ", "1", "}">>,
    <<"{", "\"">> \o K_last_date \o <<"\"", ":", " ", "\"", "x", "\"", "}">> }

\* Strings a client may send as a cursor: every truncation of a token the
\* store issued, base64 of JSON that is no cursor and of text that is no JSON,
\* and strings that are not base64.
CursorInputs ==
  { SubSeq(encode_cursor(c), 1, k) : <<c, k>> \in
      { w \in CodecCursors \X (0..100) : w[2] <= Len(encode_cursor(w[1])) } }
  \cup { B64Encode(StrEncode(j)) : j \in NonCursorJson }
  \cup { B64Encode(StrEncode(<<"h", "i">>)),
         <<"a", "b", "c">>, <<"!", "!">>, <<"g", "A", "=", "=">> }

\* decode_cursor(encode_cursor(cursor))
CodecRoundTrip ==
  /\ \E c \in CodecCursors :
       /\ codec_in' = [str |-> encode_cursor(c), encoded |-> TRUE, cursor |-> c]
       /\ codec_out' = decode_cursor(encode_cursor(c))
  /\ UNCHANGED <<storeVars, queryVars, connVars, rpcVars, extraVars>>

\* decode_cursor(cursor_str) of a string from outside.
CodecDecode ==
  /\ \E str \in CursorInputs :
       /\ codec_in' = [NoCodecCall EXCEPT !.str = str]
       /\ codec_out' = decode_cursor(str)
  /\ UNCHANGED <<storeVars, queryVars, connVars, rpcVars, extraVars>>

CodecNext == CodecRoundTrip \/ CodecDecode

SpecCodec == Init /\ [][CodecNext]_vars

\* C7: decoding the token encode_cursor made of a cursor gives that cursor
\* back, id and date unchanged.
C7_CursorRoundTrip == codec_in.encoded => codec_out = Returned(codec_in.cursor)

\* A round trip of a cursor with a negative id and a date with microseconds.
C7_Witness ==
  /\ codec_in.encoded
  /\ codec_out.kind = "cursor"
  /\ codec_out.cursor.last_id.n < 0
  /\ \E i \in 1..Len(codec_out.cursor.last_date.s) : codec_out.cursor.last_date.s[i] = "."

\* C8: decode_cursor raises on no string; a string that is no valid token
\* gives None.
C8_DecodeNeverRaises == codec_out.kind # "raise"

(***************************************************************************)
(* The connection singleton (db.py: get_db_connection, close_db)           *)
(*                                                                         *)
(* A task runs from one await to the next without interruption; each       *)
(* action is one such stretch.                                             *)
(***************************************************************************)

\* The call returns value (a handle, or 0 for None).
ReturnConnection(t, value) ==
  tasks' = [tasks EXCEPT ![t] =
              [pc |-> "idle", h |-> value,
               result |-> IF value = 0 THEN "None" ELSE "handle",
               ready |-> value # 0 /\ handles[value].initialized]]

\* An exception leaves the call.
RaiseFrom(t) == tasks' = [tasks EXCEPT ![t] = [IdleTask EXCEPT !.result = "raised"]]

\* Inside the lock, from the second check on: return the connection another
\* task has made, else start aiosqlite.connect and wait for it.
LockedCheck(t) ==
  IF db_connection # 0
  THEN /\ ReturnConnection(t, db_connection)
       /\ init_lock' = 0
  ELSE /\ Len(handles) < MaxHandles
       /\ tasks' = [tasks EXCEPT ![t] = [IdleTask EXCEPT !.pc = "connect"]]
       /\ init_lock' = t

\* get_db_connection() is called: the check outside the lock, then the lock.
GetEnter(t) ==
  /\ tasks[t].pc = "idle"
  /\ IF db_connection # 0
     THEN ReturnConnection(t, db_connection) /\ UNCHANGED init_lock
     ELSE IF init_lock = 0
     THEN LockedCheck(t)
     ELSE /\ tasks' = [tasks EXCEPT ![t] = [IdleTask EXCEPT !.pc = "lock"]]
          /\ UNCHANGED init_lock
  /\ UNCHANGED <<db_connection, handles, storeVars, queryVars, codecVars, rpcVars, extraVars>>

\* A task waiting for _init_lock gets it.
GetLocked(t) ==
  /\ tasks[t].pc = "lock"
  /\ init_lock = 0
  /\ LockedCheck(t)
  /\ UNCHANGED <<db_connection, handles, storeVars, queryVars, codecVars, rpcVars, extraVars>>

\* aiosqlite.connect has returned: the global is assigned, row_factory set
\* and PRAGMA journal_mode sent.
GetConnected(t) ==
  /\ tasks[t].pc = "connect"
  /\ handles' = Append(handles, Handle(TRUE, FALSE))
  /\ db_connection' = Len(handles) + 1
  /\ tasks' = [tasks EXCEPT ![t].pc = "journal_mode", ![t].h = Len(handles) + 1]
  /\ UNCHANGED <<init_lock, storeVars, queryVars, codecVars, rpcVars, extraVars>>

\* A statement sent on the handle tasks[t].h has returned, and the next one,
\* which becomes pc next, is sent on the connection the global names now. A
\* closed handle, or a global that is None, raises and the lock is released.
NextStatement(t, next) ==
  IF ~handles[tasks[t].h].open \/ db_connection = 0
  THEN RaiseFrom(t) /\ init_lock' = 0
  ELSE /\ tasks' = [tasks EXCEPT ![t].pc = next, ![t].h = db_connection]
       /\ UNCHANGED init_lock

\* PRAGMA journal_mode has returned; PRAGMA synchronous is sent.
GetJournalMode(t) ==
  /\ tasks[t].pc = "journal_mode"
  /\ NextStatement(t, "synchronous")
  /\ UNCHANGED <<db_connection, handles, storeVars, queryVars, codecVars, rpcVars, extraVars>>

\* PRAGMA synchronous has returned; _init_schema is called.
GetSynchronous(t) ==
  /\ tasks[t].pc = "synchronous"
  /\ NextStatement(t, "schema")
  /\ UNCHANGED <<db_connection, handles, storeVars, queryVars, codecVars, rpcVars, extraVars>>

\* _init_schema has returned: the lock is released and the global returned.
GetSchema(t) ==
  /\ tasks[t].pc = "schema"
  /\ IF ~handles[tasks[t].h].open
     THEN RaiseFrom(t) /\ UNCHANGED handles
     ELSE /\ handles' = [handles EXCEPT ![tasks[t].h].initialized = TRUE]
          /\ tasks' = [tasks EXCEPT ![t] =
                         [pc |-> "idle", h |-> db_connection,
                          result |-> IF db_connection = 0 THEN "None" ELSE "handle",
                          ready |-> db_connection # 0 /\ handles'[db_connection].initialized]]
  /\ init_lock' = 0
  /\ UNCHANGED <<db_connection, storeVars, queryVars, codecVars, rpcVars, extraVars>>

\* close_db() is called: nothing when the global is None, else close() is
\* sent on the connection the global names.
CloseEnter(t) ==
  /\ tasks[t].pc = "idle"
  /\ tasks' = [tasks EXCEPT ![t] =
                 IF db_connection = 0 THEN IdleTask
                 ELSE [IdleTask EXCEPT !.pc = "close", !.h = db_connection]]
  /\ UNCHANGED <<db_connection, init_lock, handles, storeVars, queryVars, codecVars, rpcVars, extraVars>>

\* close() has returned: the global is set to None.
CloseDone(t) ==
  /\ tasks[t].pc = "close"
  /\ handles' = [handles EXCEPT ![tasks[t].h].open = FALSE]
  /\ db_connection' = 0
  /\ tasks' = [tasks EXCEPT ![t] = IdleTask]
  /\ UNCHANGED <<init_lock, storeVars, queryVars, codecVars, rpcVars, extraVars>>

ConnNext ==
  \E t \in Tasks :
    \/ GetEnter(t)
    \/ GetLocked(t)
    \/ GetConnected(t)
    \/ GetJournalMode(t)
    \/ GetSynchronous(t)
    \/ GetSchema(t)
    \/ CloseEnter(t)
    \/ CloseDone(t)

\* Tasks calling get_db_connection and close_db in any order, from the start
\* of the process.
SpecConn == InitProcess /\ [][ConnNext]_vars

\* The statement task t awaits (a PRAGMA, or one of _init_schema) raises: the
\* exception leaves "async with _init_lock", which releases the lock, and
\* leaves get_db_connection. Nothing closes the connection or resets the
\* global.
GetFails(t) ==
  /\ tasks[t].pc \in {"journal_mode", "synchronous", "schema"}
  /\ handles[tasks[t].h].open
  /\ handles' = [handles EXCEPT ![tasks[t].h].failed = TRUE]
  /\ RaiseFrom(t)
  /\ init_lock' = 0
  /\ UNCHANGED <<db_connection, storeVars, queryVars, codecVars, rpcVars, extraVars>>

ConnFailNext ==
  \/ ConnNext
  \/ \E t \in Tasks : GetFails(t)

\* The same tasks, with statements of the initialization that may raise.
SpecConnFail == InitProcess /\ [][ConnFailNext]_vars

\* C3: at every moment at most one database handle is open, whatever the
\* interleaving of get_db_connection and close_db calls.
C3_AtMostOneOpenHandle ==
  Cardinality({h \in 1..Len(handles) : handles[h].open}) <= 1

\* C4: while the first get_db_connection call is initializing the handle, no
\* call returns a handle before the initialization has completed, and no
\* second handle is opened.
C4_NoHandleBeforeInitialized ==
  /\ \A t \in Tasks : tasks[t].result = "handle" => tasks[t].ready
  /\ (Len(handles) > 0 /\ handles[1].open /\ ~handles[1].initialized) => Len(handles) = 1

(***************************************************************************)
(* Pagination properties                                                   *)
(***************************************************************************)

\* The rows of a table that meet the filters of the client's run.
RunMatching(table) == {r \in table : FilterConditions(r, FiltersOfParams(client.params))}

\* The instant of a serialized message, in microseconds.
MicrosOf(msg) == fromisoformat(msg.date).sec * 1000000 + fromisoformat(msg.date).usec

\* Message a comes strictly before b in (date, id) descending order.
KeyDecreases(a, b) ==
  \/ MicrosOf(a) > MicrosOf(b)
  \/ MicrosOf(a) = MicrosOf(b) /\ a.id > b.id

RunDone == client.phase = "done" /\ client.kind = "run"

\* C1: when the table does not change during a pagination run (first request
\* without cursor, each next request with the next_cursor received, until
\* has_more is false), the pages together hold exactly the N matching messages,
\* each once, in strictly decreasing (date, id) order, for every page size.
C1_PaginationComplete ==
  (RunDone /\ client.stable) =>
    /\ Len(client.received) = Cardinality(RunMatching(client.first_table))
    /\ {client.received[i] : i \in 1..Len(client.received)}
         = {serialize_message(MessageOfRow(r)) : r \in RunMatching(client.first_table)}
    /\ \A i \in 1..Len(client.received) : \A j \in 1..Len(client.received) :
         i < j => KeyDecreases(client.received[i], client.received[j])

\* A run over an unchanged table of MaxId messages that took several pages and
\* returned two messages of one date.
C1_Witness ==
  /\ RunDone /\ client.stable
  /\ client.pages > 1
  /\ Len(client.received) = MaxId
  /\ \E i \in 1..Len(client.received) : \E j \in 1..Len(client.received) :
       i # j /\ client.received[i].date = client.received[j].date

\* C2: with inserts running during a pagination run, every message that
\* matched when the first page was requested is returned exactly once, and no
\* message is returned on two pages.
C2_PaginationStable ==
  RunDone =>
    /\ \A r \in RunMatching(client.first_table) :
         Cardinality({i \in 1..Len(client.received) : client.received[i].id = r.id}) = 1
    /\ \A i \in 1..Len(client.received) : \A j \in 1..Len(client.received) :
         i # j => client.received[i].id # client.received[j].id

\* A run of several pages during which a message was inserted, over a table
\* that had matching messages at the first request.
C2_Witness ==
  /\ RunDone /\ ~client.stable
  /\ client.pages > 1
  /\ Cardinality(RunMatching(client.first_table)) > 1
  /\ Len(client.received) > Cardinality(RunMatching(client.first_table))

\* C9: a getMessages request with a string cursor that does not decode to a
\* valid cursor gets the result the same request gets with no cursor.
C9_InvalidCursorIsNoCursor ==
  (client.phase = "done" /\ client.kind = "probe") => client.response = client.reference

\* The last message of the page the first query returned.
LastListed == req.list.messages[Len(req.list.messages)]

\* C10: has_more is true exactly when more than limit messages meet the
\* filters and the cursor condition; the page then has exactly limit messages;
\* next_cursor is not null exactly when has_more, and decodes to the id and
\* the date of the last message of the page.
C10_HasMoreAndNextCursor ==
  req.state = "listed" =>
    /\ req.list.has_more <=> req.n_match > req.limit
    /\ req.list.has_more => Len(req.list.messages) = req.limit
    /\ req.list.next_cursor # None <=> req.list.has_more
    /\ req.list.has_more =>
         /\ req.list.next_cursor.t = "str"
         /\ decode_cursor(req.list.next_cursor.s).kind = "cursor"
         /\ decode_cursor(req.list.next_cursor.s).cursor.last_id = JInt(LastListed.id)
         /\ decode_cursor(req.list.next_cursor.s).cursor.last_date.t = "str"
         /\ fromisoformat(decode_cursor(req.list.next_cursor.s).cursor.last_date.s)
              = LastListed.date

\* A page after a cursor, of more than one message, with more to come.
C10_Witness ==
  /\ req.state = "listed"
  /\ Truthy(ParamGet(req.params.cursor, None))
  /\ req.list.has_more
  /\ req.limit > 1
  /\ req.n_match > req.limit

(***************************************************************************)
(* Filters: pagination runs with every combination of predicates over a    *)
(* store that was filled before the run                                    *)
(***************************************************************************)

\* Messages of two chats, two senders, two dates and two texts.
FilterPool ==
  { Message(id, chat_id, sender_id, dt, JStr(text)) :
      id \in {1, 2}, chat_id \in {1, 2}, sender_id \in {1, 2}, dt \in DateTimes,
      text \in {<<"h", "i">>, <<"y", "o">>} }

\* Every combination of the five predicates, each given or left out.
FilterSets ==
  { Filters(chat_id, sender_id, keyword, date_from, date_to) :
      chat_id \in {None, JInt(1)}, sender_id \in {None, JInt(1)},
      keyword \in {None, JStr(<<"I">>), JStr(<<"h", "_">>)},
      date_from \in {None, JStr(isoformat(DateTime(1, 0)))},
      date_to \in {None, JStr(isoformat(DateTime(0, 500000)))} }

FilterInsert ==
  /\ client.phase = "idle"
  /\ \E m \in FilterPool : InsertMessage(m)

StartFiltered ==
  \E f \in FilterSets, limit \in {1, 2} :
    ClientStart("run", GetMessagesParams(f, JInt(limit), Absent))

FilterNext ==
  \/ FilterInsert
  \/ StartFiltered
  \/ GetMessagesList
  \/ GetMessagesCount

SpecFilter == Init /\ [][FilterNext]_vars

\* The instant an ISO string names, in microseconds.
MicrosOfIso(str) == fromisoformat(str).sec * 1000000 + fromisoformat(str).usec

\* keyword occurs in text, letters compared without case.
IsSubstring(keyword, text) ==
  \E i \in 0..(Len(text) - Len(keyword)) :
    \A j \in 1..Len(keyword) : Lower(text[i + j]) = Lower(keyword[j])

\* The row meets every predicate that f supplies.
Satisfies(row, f) ==
  /\ f.chat_id # None => row.chat_id = f.chat_id.n
  /\ f.sender_id # None => row.sender_id = f.sender_id.n
  /\ f.keyword # None => row.text.t = "str" /\ IsSubstring(f.keyword.s, row.text.s)
  /\ f.date_from # None => MicrosOfIso(f.date_from.s) <= MicrosOfIso(row.date)
  /\ f.date_to # None => MicrosOfIso(row.date) <= MicrosOfIso(f.date_to.s)

\* C11: the messages getMessages returns are those that meet every predicate
\* supplied (chat_id, sender_id, keyword a substring of the text, date_from <=
\* date, date <= date_to); a predicate left out restricts nothing.
C11_FilterConjunction ==
  RunDone =>
    {client.received[i].id : i \in 1..Len(client.received)}
      = {r.id : r \in {x \in client.first_table :
                         Satisfies(x, FiltersOfParams(client.params))}}

\* C12: over a fixed store, total_count of every page equals the number of
\* messages the complete pagination run with these filters returns, whatever
\* the limit and the cursor of the request.
C12_CountMatchesList ==
  /\ (client.kind = "run" /\ client.pages > 0 /\ client.response.kind = "result") =>
       client.response.total_count = Cardinality(RunMatching(client.first_table))
  /\ RunDone => client.response.total_count = Len(client.received)

\* A run with filters that one message meets and another does not: the
\* count is below the size of the table.
C12_Witness ==
  /\ RunDone
  /\ client.response.total_count = Len(client.received)
  /\ client.response.total_count > 0
  /\ client.response.total_count < Cardinality(client.first_table)
  /\ FiltersOfParams(client.params).chat_id # None
  /\ FiltersOfParams(client.params).date_from # None

(***************************************************************************)
(* JSON-RPC over WebSocket (server.py: handle_jsonrpc_request,             *)
(* handle_websocket_client and the five handlers)                          *)
(***************************************************************************)

JSONRPC_PARSE_ERROR == -32700
JSONRPC_INVALID_REQUEST == -32600
JSONRPC_METHOD_NOT_FOUND == -32601
JSONRPC_INTERNAL_ERROR == -32603
DEFAULT_USERS_LIMIT == 50
DEFAULT_MEDIA_LIMIT == 50
DEFAULT_SEARCH_LIMIT == 50

\* The keys of a request object and of its params.
K_jsonrpc == <<"j", "s", "o", "n", "r", "p", "c">>
K_id == <<"i", "d">>
K_method == <<"m", "e", "t", "h", "o", "d">>
K_params == <<"p", "a", "r", "a", "m", "s">>
K_limit == <<"l", "i", "m", "i", "t">>
K_cursor == <<"c", "u", "r", "s", "o", "r">>
K_query == <<"q", "u", "e", "r", "y">>
K_chat_id == <<"c", "h", "a", "t", "_", "i", "d">>
K_sender_id == <<"s", "e", "n", "d", "e", "r", "_", "i", "d">>
K_keyword == <<"k", "e", "y", "w", "o", "r", "d">>
K_date_from == <<"d", "a", "t", "e", "_", "f", "r", "o", "m">>
K_date_to == <<"d", "a", "t", "e", "_", "t", "o">>
K_media_type == <<"m", "e", "d", "i", "a", "_", "t", "y", "p", "e">>

\* The string "2.0".
Version2 == <<"2", ".", "0">>

\* The names of the five operations.
M_getMessages == <<"g", "e", "t", "M", "e", "s", "s", "a", "g", "e", "s">>
M_getChats == <<"g", "e", "t", "C", "h", "a", "t", "s">>
M_getUsers == <<"g", "e", "t", "U", "s", "e", "r", "s">>
M_getMedia == <<"g", "e", "t", "M", "e", "d", "i", "a">>
M_search == <<"s", "e", "a", "r", "c", "h">>

\* The keys of METHOD_HANDLERS.
METHOD_HANDLERS == {M_getMessages, M_getChats, M_getUsers, M_getMedia, M_search}

\* d.get(key): None when the key is missing.
Get(d, key) == IF DictHas(d, key) THEN DictGet(d, key) ELSE None

\* d.get(key, default), the default left to the reader of the value.
GetOrAbsent(d, key) == IF DictHas(d, key) THEN DictGet(d, key) ELSE Absent

\* hash(v) succeeds: a list and a dict are unhashable.
Hashable(v) == v.t \notin {"list", "dict"}

\* JSONRPCError(code, message).to_dict() inside the response, and the "id"
\* key, which the response holds only when request_id is not None.
create_error_response(code, message, request_id) ==
  [error |-> TRUE, code |-> code, message |-> message, has_id |-> request_id # None,
   id |-> request_id, result |-> HandlerRaised("-")]

create_success_response(result, request_id) ==
  [error |-> FALSE, code |-> 0, message |-> "", has_id |-> request_id # None,
   id |-> request_id, result |-> result]

\* What a handler did: what it returned or raised, and the number of store
\* functions it called.
Handled(h, calls) == [h |-> h, calls |-> calls]

\* The params of getMessages as the handler reads them: every key through
\* params.get, and none of them when params is None or empty.
GetMessagesParamsOf(params) ==
  IF ~Truthy(params) THEN GetMessagesParams(NoFilters, Absent, Absent)
  ELSE GetMessagesParams(
         Filters(GetOrAbsent(params, K_chat_id), GetOrAbsent(params, K_sender_id),
                 GetOrAbsent(params, K_keyword), GetOrAbsent(params, K_date_from),
                 GetOrAbsent(params, K_date_to)),
         GetOrAbsent(params, K_limit), GetOrAbsent(params, K_cursor))

\* handle_get_messages after both of its queries.
GetMessagesCounted(list, c) ==
  IF c.kind = "raise" THEN Handled(HandlerRaised(c.exc), 2)
  ELSE Handled(HandlerResult(list, c.count), 2)

\* handle_get_messages after its first query.
GetMessagesListed(table, f, list) ==
  IF list.kind = "raise" THEN Handled(HandlerRaised(list.exc), 1)
  ELSE GetMessagesCounted(list, count_messages(table, f))

\* handle_get_messages after its checks gave v; fault is the exception the
\* database raises in the first store call ("-": none).
GetMessagesChecked(table, p, v, fault) ==
  IF ~v.ok THEN Handled(HandlerRaised(v.exc), 0)
  ELSE IF fault # "-" THEN Handled(HandlerRaised(fault), 1)
  ELSE GetMessagesListed(table, FiltersOfParams(p),
         get_messages_with_filters(table, FiltersOfParams(p), v.limit,
                                   ParamGet(p.cursor, None)))

handle_get_messages(table, params, fault) ==
  GetMessagesChecked(table, GetMessagesParamsOf(params),
                     ValidateGetMessages(GetMessagesParamsOf(params)), fault)

\* The result of a handler whose rows this model does not hold (chats are
\* listed whole; users and media have no table here).
StoreResult == [HandlerRaised("-") EXCEPT !.kind = "result"]

\* One call of a store function with bound parameters bound: the fault, a
\* binding error, or rows.
StoreCall(bound, fault) ==
  IF fault # "-" THEN Handled(HandlerRaised(fault), 1)
  ELSE IF \E v \in bound : ~Bindable(v) THEN Handled(HandlerRaised("sqlite3.Error"), 1)
  ELSE Handled(StoreResult, 1)

\* handle_get_chats: get_all_chats() and nothing else.
handle_get_chats(params, fault) == StoreCall({}, fault)

\* params.get("limit", default) if params else default
LimitOf(params, default) ==
  IF Truthy(params) THEN ParamGet(GetOrAbsent(params, K_limit), JInt(default))
  ELSE JInt(default)

\* The limit checks of getUsers, getMedia and search: an exception, or "-".
ValidateLimit(limit) ==
  IF ~IsInstanceInt(limit) THEN RaiseJSONRPCError(JSONRPC_INVALID_PARAMS)
  ELSE IF limit.n <= 0 THEN RaiseJSONRPCError(JSONRPC_INVALID_PARAMS)
  ELSE "-"

\* A handler that makes its store call before it looks at its checks.
CallThenCheck(exc, bound, fault) ==
  IF exc # "-" THEN Handled(HandlerRaised(exc), 1) ELSE StoreCall(bound, fault)

\* A handler's checks gave exc: it raises, or it makes its store call.
CheckedCall(exc, bound, fault) ==
  IF exc # "-" THEN Handled(HandlerRaised(exc), 0) ELSE StoreCall(bound, fault)

\* handle_get_users: search_users binds the LIKE pattern, a string whatever
\* the keyword is, and the limit.
handle_get_users(params, fault) ==
  CheckedCall(ValidateLimit(LimitOf(params, DEFAULT_USERS_LIMIT)), {}, fault)

\* Text that int() accepts: whitespace around an optional sign and digits,
\* single underscores between digits allowed.
Strip(s) ==
  IF \A i \in 1..Len(s) : s[i] \in JsonWs THEN <<>>
  ELSE SubSeq(s, CHOOSE i \in 1..Len(s) : s[i] \notin JsonWs
                                          /\ \A k \in 1..(i - 1) : s[k] \in JsonWs,
                 CHOOSE j \in 1..Len(s) : s[j] \notin JsonWs
                                          /\ \A k \in (j + 1)..Len(s) : s[k] \in JsonWs)

IsIntDigits(s) ==
  /\ Len(s) > 0
  /\ IsDigit(s[1]) /\ IsDigit(s[Len(s)])
  /\ \A i \in 1..Len(s) : IsDigit(s[i]) \/ s[i] = "_"
  /\ \A i \in 1..(Len(s) - 1) : ~(s[i] = "_" /\ s[i + 1] = "_")

IsPyIntText(s) ==
  IF Len(Strip(s)) > 0 /\ Strip(s)[1] \in {"+", "-"}
  THEN IsIntDigits(Drop(Strip(s), 1))
  ELSE IsIntDigits(Strip(s))

\* int(cursor_str) inside try ... except ValueError: the exception that
\* leaves the block, or "-". A number or a boolean converts, a string that
\* is no integer and a NaN raise ValueError, which the handler replaces by
\* JSONRPCError, and an infinity (OverflowError), a list or a dict
\* (TypeError) raise what it does not catch.
MediaCursorCheck(cursor_str) ==
  CASE cursor_str.t = "null" -> "-"
    [] cursor_str.t = "float" /\ cursor_str.s = <<"N", "a", "N">> ->
         RaiseJSONRPCError(JSONRPC_INVALID_PARAMS)
    [] cursor_str.t = "float" /\ cursor_str.s # <<>> -> "OverflowError"
    [] cursor_str.t \in {"int", "float", "bool"} -> "-"
    [] cursor_str.t = "str" ->
         IF IsPyIntText(cursor_str.s) THEN "-"
         ELSE RaiseJSONRPCError(JSONRPC_INVALID_PARAMS)
    [] OTHER -> "TypeError"

\* The checks of handle_get_media: the cursor, then the limit.
ValidateGetMedia(params) ==
  IF Truthy(params) /\ MediaCursorCheck(Get(params, K_cursor)) # "-"
  THEN MediaCursorCheck(Get(params, K_cursor))
  ELSE ValidateLimit(LimitOf(params, DEFAULT_MEDIA_LIMIT))

\* The parameters get_media_with_filters binds besides cursor and limit.
MediaBound(params) ==
  IF ~Truthy(params) THEN {}
  ELSE (IF Get(params, K_chat_id) # None THEN {Get(params, K_chat_id)} ELSE {})
       \cup (IF Truthy(Get(params, K_media_type)) THEN {Get(params, K_media_type)} ELSE {})

handle_get_media(params, fault) ==
  CheckedCall(ValidateGetMedia(params), MediaBound(params), fault)

\* The checks of handle_search: params, query, limit.
ValidateSearch(params) ==
  IF ~Truthy(params) THEN RaiseJSONRPCError(JSONRPC_INVALID_PARAMS)
  ELSE IF ~Truthy(Get(params, K_query)) THEN RaiseJSONRPCError(JSONRPC_INVALID_PARAMS)
  ELSE IF Get(params, K_query).t # "str" THEN RaiseJSONRPCError(JSONRPC_INVALID_PARAMS)
  ELSE ValidateLimit(LimitOf(params, DEFAULT_SEARCH_LIMIT))

\* The parameters search_messages_fulltext binds besides query and limit:
\* both dates, or a default for the one not given, when either is given.
SearchBound(params) ==
  IF Truthy(Get(params, K_date_from)) \/ Truthy(Get(params, K_date_to))
  THEN {v \in {Get(params, K_date_from), Get(params, K_date_to)} : Truthy(v)}
  ELSE {}

handle_search(params, fault) ==
  CheckedCall(ValidateSearch(params), IF Truthy(params) THEN SearchBound(params) ELSE {}, fault)

\* handler = METHOD_HANDLERS[method]; await handler(params)
CallHandler(table, method, params, fault) ==
  CASE method = M_getMessages -> handle_get_messages(table, params, fault)
    [] method = M_getChats -> handle_get_chats(params, fault)
    [] method = M_getUsers -> handle_get_users(params, fault)
    [] method = M_getMedia -> handle_get_media(params, fault)
    [] OTHER -> handle_search(params, fault)

\* What handle_jsonrpc_request did with a request: the response it returned,
\* or the exception that left it; raised is the exception inside the handler
\* ("-": none), calls the number of store functions called.
Answered(response, raised, calls) ==
  [kind |-> "response", exc |-> "-", response |-> response, raised |-> raised,
   calls |-> calls]
Escaped(exc, raised, calls) ==
  [kind |-> "escaped", exc |-> exc, response |-> create_error_response(0, "", None),
   raised |-> raised, calls |-> calls]

\* The except clauses after the handler raised exc. "except JSONRPCError"
\* comes first: JSONRPCError does not derive from BaseException, so matching
\* the exception against it raises TypeError, and an exception raised while
\* matching is not offered to the "except Exception" clause that follows.
ExceptClauses(exc, request_id, calls) == Escaped("TypeError", exc, calls)

\* The try statement around the handler call.
Dispatched(hd, request_id) ==
  IF hd.h.kind = "result"
  THEN Answered(create_success_response(hd.h, request_id), "-", hd.calls)
  ELSE ExceptClauses(hd.h.exc, request_id, hd.calls)

\* handle_jsonrpc_request(request): the version, the method, the params, then
\* the handler. "method not in METHOD_HANDLERS" hashes the method.
handle_jsonrpc_request(table, request, fault) ==
  IF Get(request, K_jsonrpc) # JStr(Version2)
  THEN Answered(create_error_response(JSONRPC_INVALID_REQUEST, "Invalid JSON-RPC version",
                                      Get(request, K_id)), "-", 0)
  ELSE IF ~Truthy(Get(request, K_method))
  THEN Answered(create_error_response(JSONRPC_METHOD_NOT_FOUND, "Method not found",
                                      Get(request, K_id)), "-", 0)
  ELSE IF ~Hashable(Get(request, K_method)) THEN Escaped("TypeError", "-", 0)
  ELSE IF Get(request, K_method).t # "str" \/ Get(request, K_method).s \notin METHOD_HANDLERS
  THEN Answered(create_error_response(JSONRPC_METHOD_NOT_FOUND, "Method not found",
                                      Get(request, K_id)), "-", 0)
  ELSE IF Get(request, K_params) # None /\ Get(request, K_params).t # "dict"
  THEN Answered(create_error_response(JSONRPC_INVALID_PARAMS,
                                      "Params must be an object or null",
                                      Get(request, K_id)), "-", 0)
  ELSE Dispatched(CallHandler(table, Get(request, K_method).s, Get(request, K_params), fault),
                  Get(request, K_id))

\* A frame sent to the client: one response, or the array of a batch.
Frame(batch, responses) == [batch |-> batch, responses |-> responses]

\* A request object with what was done with it.
HandledRequest(request, out) == [request |-> request, out |-> out]

IsDict(v) == v.t = "dict"

\* The requests of a batch that were handled: each dict of the array in
\* turn, up to the first one whose exception leaves the loop.
BatchHandled(outs) ==
  IF \E i \in 1..Len(outs) : outs[i].out.kind = "escaped"
  THEN SubSeq(outs, 1, CHOOSE i \in 1..Len(outs) :
                          /\ outs[i].out.kind = "escaped"
                          /\ \A j \in 1..(i - 1) : outs[j].out.kind # "escaped")
  ELSE outs

\* A batch answered with the array of its responses, whatever their number.
BatchSentArray(handled) ==
  IF \E i \in 1..Len(handled) : handled[i].out.kind = "escaped" THEN <<>>
  ELSE <<Frame(TRUE, [i \in 1..Len(handled) |-> handled[i].out.response])>>

\* The frames sent for the handled requests of a batch: nothing after an
\* exception, the array of the responses, or one error when there is none.
BatchSent(handled) ==
  IF \E i \in 1..Len(handled) : handled[i].out.kind = "escaped" THEN <<>>
  ELSE IF Len(handled) > 0
  THEN <<Frame(TRUE, [i \in 1..Len(handled) |-> handled[i].out.response])>>
  ELSE <<Frame(FALSE, <<create_error_response(JSONRPC_INVALID_REQUEST,
                          "Invalid batch request: all items must be objects", None)>>)>>

BatchEntry(parsed, handled) == Entry(parsed, handled, BatchSent(handled))

\* A single request object.
SingleEntry(parsed, out) ==
  Entry(parsed, <<HandledRequest(parsed.v, out)>>,
        IF out.kind = "escaped" THEN <<>> ELSE <<Frame(FALSE, <<out.response>>)>>)

\* One iteration of "async for message in websocket": json.loads gave parsed.
HandleMessage(table, parsed, fault) ==
  IF ~parsed.ok
  THEN Entry(parsed, <<>>,
             <<Frame(FALSE, <<create_error_response(JSONRPC_PARSE_ERROR, "Invalid JSON", None)>>)>>)
  ELSE IF parsed.v.t = "list"
  THEN BatchEntry(parsed,
         BatchHandled([i \in 1..Len(SelectSeq(parsed.v.e, IsDict)) |->
            HandledRequest(SelectSeq(parsed.v.e, IsDict)[i],
              handle_jsonrpc_request(table, SelectSeq(parsed.v.e, IsDict)[i], fault))]))
  ELSE IF parsed.v.t = "dict"
  THEN SingleEntry(parsed, handle_jsonrpc_request(table, parsed.v, fault))
  ELSE Entry(parsed, <<>>,
             <<Frame(FALSE, <<create_error_response(JSONRPC_INVALID_REQUEST,
                                "Request must be an object or array", None)>>)>>)

\* Whether an exception left the loop while the frame was handled.
EntryEscaped(entry) ==
  \E i \in 1..Len(entry.handled) : entry.handled[i].out.kind = "escaped"

\* The connection after a frame: "except Exception" around the loop logs the
\* exception and the connection handler returns.
AfterMessage(entry, malformed) ==
  /\ ws' = [open |-> ~EntryEscaped(entry), garbled |-> ws.garbled \/ malformed,
            malformed |-> malformed, last |-> entry, wire |-> ws.wire]
  /\ UNCHANGED <<storeVars, queryVars, codecVars, connVars, extraVars>>

\* A client connects: handle_websocket_client starts.
WsConnect ==
  /\ ~ws.open
  /\ ws' = [ws EXCEPT !.open = TRUE, !.garbled = FALSE]
  /\ UNCHANGED <<storeVars, queryVars, codecVars, connVars, extraVars>>

\* The client closes the connection: ConnectionClosed ends the loop.
WsClose ==
  /\ ws.open
  /\ ws' = [ws EXCEPT !.open = FALSE]
  /\ UNCHANGED <<storeVars, queryVars, codecVars, connVars, extraVars>>

\* A frame whose text json.loads turns into data arrives and is handled.
WsReceive(data, fault) ==
  /\ ws.open
  /\ AfterMessage(HandleMessage(messages, [ok |-> TRUE, v |-> data], fault), FALSE)

\* Whether a text is outside the JSON grammar (RFC 8259): json.loads rejects
\* it, or takes it for a constant in it that the grammar does not have. No
\* text of the model has the name of such a constant in a string literal.
NotJson(text) ==
  \/ ~JsonLoads(text).ok
  \/ \E i \in 1..Len(text) :
       StartsWithAt(text, i, <<"N", "a", "N">>) \/ StartsWithAt(text, i, Infinity)

\* A frame of the given text arrives and is handled.
WsReceiveText(text) ==
  /\ ws.open
  /\ AfterMessage(HandleMessage(messages, JsonLoads(text), "-"), NotJson(text))

\* An object of the given pairs, without those whose value is Absent.
IsPresent(pair) == pair.e[1] # Absent
Object(pairs) == JDict(SelectSeq(pairs, IsPresent))

\* A request object; Absent leaves a member out.
Request(version, method, params, id) ==
  Object(<<JPair(K_jsonrpc, version), JPair(K_method, method), JPair(K_params, params),
           JPair(K_id, id)>>)

\* Values for the method member: the five names, none, and names that are
\* not known or not strings.
MethodValues ==
  { JStr(m) : m \in METHOD_HANDLERS }
  \cup { Absent, JNull, JStr(<<>>), JStr(<<"g", "e", "t", "M", "e", "s", "s", "a", "g", "e">>), JInt(5), JList(<<>>),
         JList(<<JStr(M_getMessages)>>), JDict(<<>>),
         JDict(<<JPair(K_method, JStr(M_getChats))>>) }

\* Values for the limit member.
LimitValues ==
  { JStr(<<"1">>), JFloat(1), JBool(TRUE), JBool(FALSE), JNull, JInt(0), JInt(-1),
    JInt(1), JInt(2) }

\* Values for the cursor member: a cursor encode_cursor made, text that is
\* and is not an integer, and values that are not strings.
CursorValues ==
  { JStr(encode_cursor(MessageCursor(JInt(2), JStr(isoformat(DateTime(1, 0)))))),
    JStr(<<"1", "2">>), JStr(<<" ", "7", "\n">>), JStr(<<"a", "b", "c">>), JStr(<<>>),
    JNull, JInt(5), JFloat(1), JBool(TRUE), JList(<<>>), JList(<<JInt(1)>>), JDict(<<>>),
    JDict(<<JPair(K_id, JInt(1))>>) }

\* The query of the search requests.
Q_hi == JStr(<<"h", "i">>)

\* The request objects the clients send. Every one but those of the first
\* two lines has version "2.0" and the id 7.
EnvelopeRequests ==
  { Request(v, JStr(M_getChats), Absent, JInt(7)) :
      v \in {Absent, JStr(<<"1", ".", "0">>), JInt(2)} }
  \cup { Request(JStr(Version2), JStr(M_getChats), Absent, id) :
           id \in {Absent, JNull, JStr(<<"a">>)} }
  \cup { Request(JStr(Version2), JStr(<<>>), Absent, id) : id \in {Absent, JNull} }
  \cup { Request(JStr(Version2), m, Absent, JInt(7)) : m \in MethodValues }
  \cup { Request(JStr(Version2), JStr(m), p, JInt(7)) :
           m \in METHOD_HANDLERS, p \in {JNull, JDict(<<>>), JList(<<>>), JInt(1)} }

LimitRequests ==
  { Request(JStr(Version2), JStr(m), Object(<<JPair(K_query, Q_hi), JPair(K_limit, l)>>),
            JInt(7)) :
      m \in METHOD_HANDLERS \ {M_getChats}, l \in LimitValues }

CursorRequests ==
  { Request(JStr(Version2), JStr(m), Object(<<JPair(K_cursor, c)>>), JInt(7)) :
      m \in {M_getMessages, M_getMedia}, c \in CursorValues }

\* search with a query that is missing, empty or no string, requests whose
\* filter the database cannot bind, and requests whose filter is of another
\* type than the column.
OtherRequests ==
  { Request(JStr(Version2), JStr(M_search), Object(<<JPair(K_query, q)>>), JInt(7)) :
      q \in {JStr(<<>>), JInt(5), JList(<<Q_hi>>)} }
  \cup { Request(JStr(Version2), JStr(m), Object(<<JPair(K_chat_id, JList(<<JInt(1)>>))>>),
                 JInt(7)) : m \in {M_getMessages, M_getMedia} }
  \cup { Request(JStr(Version2), JStr(M_getMessages), Object(<<p>>), JInt(7)) :
           p \in {JPair(K_chat_id, JStr(<<"x">>)), JPair(K_keyword, JInt(5))} }
  \cup { Request(JStr(Version2), JStr(M_getMedia), Object(<<JPair(K_media_type, JInt(5))>>),
                 JInt(7)) }

RpcRequests == EnvelopeRequests \cup LimitRequests \cup CursorRequests \cup OtherRequests

\* A request of each operation that passes every check.
ValidRequest(m) ==
  Request(JStr(Version2), JStr(m), Object(<<JPair(K_query, Q_hi), JPair(K_limit, JInt(1))>>),
          JInt(7))

\* Batches: two requests that pass, one that passes after one that does not,
\* in both ways of failing, an array without objects, and an empty array.
RpcBatches ==
  { JList(<<ValidRequest(M_getMessages), Request(JStr(Version2), JStr(M_getChats), Absent, JInt(8))>>),
    JList(<<Request(Absent, JStr(M_getChats), Absent, JInt(9)), JStr(<<"x">>),
            ValidRequest(M_getChats)>>),
    JList(<<ValidRequest(M_getChats),
            Request(JStr(Version2), JStr(M_getUsers), Object(<<JPair(K_limit, JInt(0))>>),
                    JInt(8))>>),
    JList(<<JInt(5), ValidRequest(M_getChats)>>),
    JList(<<JInt(5)>>),
    JList(<<>>) }

\* The text of a getChats request whose id is the given text.
RequestText(id) ==
  <<"{">> \o JsonDumpsStr(K_jsonrpc) \o <<":">> \o JsonDumpsStr(Version2) \o <<",">>
  \o JsonDumpsStr(K_method) \o <<":">> \o JsonDumpsStr(M_getChats) \o <<",">>
  \o JsonDumpsStr(K_id) \o <<":">> \o id \o <<"}">>

\* Frames that are no JSON text, and JSON texts that are no object.
RpcTexts ==
  { <<"{">>, <<>>, <<"[", "1", ",", "]">>, <<"n", "u", "l">>, <<"5">>, <<"\"", "x", "\"">>,
    <<"n", "u", "l", "l">>, <<"N", "a", "N">>, <<"[", "-">> \o Infinity \o <<"]">>,
    RequestText(<<"N", "a", "N">>), RequestText(<<"3">>) }

\* The exceptions the database raises in a store call of the model.
Faults == {"database is locked", "disk I/O error"}

\* The messages in the store of the dispatcher model.
RpcPool == { Message(id, 1, 1, DateTime(1, 0), JStr(<<"h", "i">>)) : id \in {1, 2} }

RpcInsert == \E m \in RpcPool : InsertMessage(m)

WsRequest == \E data \in RpcRequests \cup RpcBatches : WsReceive(data, "-")

\* A request that passes the checks, and the database fails.
WsRequestFault == \E m \in METHOD_HANDLERS, fault \in Faults : WsReceive(ValidRequest(m), fault)

WsText == \E text \in RpcTexts : WsReceiveText(text)

RpcNext ==
  \/ RpcInsert
  \/ WsConnect
  \/ WsClose
  \/ WsRequest
  \/ WsRequestFault
  \/ WsText

\* One client at a time on the WebSocket server, and inserts between frames.
SpecRpc == Init /\ [][RpcNext]_vars

(***************************************************************************)
(* Properties of the dispatcher                                            *)
(***************************************************************************)

\* The request objects of the last frame, each with what
\* handle_jsonrpc_request did with it.
RpcHandled == { ws.last.handled[i] : i \in 1..Len(ws.last.handled) }

\* The codes of the fixed error kinds.
ErrorCodes ==
  {JSONRPC_PARSE_ERROR, JSONRPC_INVALID_REQUEST, JSONRPC_METHOD_NOT_FOUND,
   JSONRPC_INVALID_PARAMS, JSONRPC_INTERNAL_ERROR}

\* C14: every failure inside a handler, a validation failure it signals or
\* an exception of the store, becomes an error response of one of the fixed
\* kinds: no exception leaves handle_jsonrpc_request.
C14_HandlerFailureBecomesResponse ==
  \A r \in RpcHandled :
    r.out.raised # "-" =>
      /\ r.out.kind = "response"
      /\ r.out.response.error
      /\ r.out.response.code \in ErrorCodes

\* The id a response carries: None when it has no "id" member.
ResponseId(response) == IF response.has_id THEN response.id ELSE None

\* The request names the version "2.0".
ValidVersion(request) == Get(request, K_jsonrpc) = JStr(Version2)

\* The request names this operation, with the version "2.0" and params that
\* are an object.
Calls(request, method) ==
  /\ ValidVersion(request)
  /\ Get(request, K_method) = JStr(method)
  /\ Get(request, K_params).t = "dict"

\* The request was answered with an error of this code.
ErrorOf(r, code) ==
  /\ r.out.kind = "response"
  /\ r.out.response.error
  /\ r.out.response.code = code

\* C13: every request object received on an open connection is answered with
\* exactly one response on that connection, and the response carries the id
\* of the request; for a result and for every kind of error, a validation
\* failure inside a handler among them.
C13_EveryRequestAnswered ==
  \A i \in 1..Len(ws.last.handled) :
    /\ ws.last.handled[i].out.kind = "response"
    /\ Len(ws.last.sent) = 1
    /\ Len(ws.last.sent[1].responses) = Len(ws.last.handled)
    /\ ws.last.sent[1].responses[i] = ws.last.handled[i].out.response
    /\ ResponseId(ws.last.handled[i].out.response) = Get(ws.last.handled[i].request, K_id)

\* A request of the last frame and the same request in the frame this step
\* handles, both failed by an exception of the store, not by the same one.
FailedTwice(r1, r2) ==
  /\ r1.request = r2.request
  /\ r1.out.raised \in Faults
  /\ r2.out.raised \in Faults
  /\ r1.out.raised # r2.out.raised

\* C15: the internal-error response is generic: two executions of the same
\* request that fail with different internal exceptions are answered, and
\* with the same response.
C15_InternalErrorGeneric ==
  [][ \A i \in 1..Len(ws.last.handled), j \in 1..Len(ws'.last.handled) :
        FailedTwice(ws.last.handled[i], ws'.last.handled[j]) =>
          /\ ErrorOf(ws.last.handled[i], JSONRPC_INTERNAL_ERROR)
          /\ ws'.last.handled[j].out = [ws.last.handled[i].out EXCEPT
                                          !.raised = ws'.last.handled[j].out.raised] ]_vars

\* C17: every request with the version "2.0" whose method is none of the
\* five names (missing, empty, misspelled, or no string) is answered with
\* the method-not-found error and makes no store call.
C17_UnknownMethodNotFound ==
  \A r \in RpcHandled :
    (/\ ValidVersion(r.request)
     /\ \A m \in METHOD_HANDLERS : Get(r.request, K_method) # JStr(m))
    => ErrorOf(r, JSONRPC_METHOD_NOT_FOUND) /\ r.out.calls = 0

\* A value that is a positive integer number.
IsPositiveInteger(v) == v.t = "int" /\ v.n > 0

\* C18: for getMessages, getUsers, getMedia and search, a limit that is no
\* positive integer (a string, a float, a boolean, null, zero, a negative
\* integer) is answered with the invalid-parameters error.
C18_BadLimitRejected ==
  \A r \in RpcHandled :
    (/\ \E m \in METHOD_HANDLERS \ {M_getChats} : Calls(r.request, m)
     /\ DictHas(Get(r.request, K_params), K_limit)
     /\ ~IsPositiveInteger(Get(Get(r.request, K_params), K_limit)))
    => ErrorOf(r, JSONRPC_INVALID_PARAMS)

\* C20: a cursor of the wrong type is answered with the invalid-parameters
\* error: for getMessages a cursor that is present and no string, for
\* getMedia a cursor that is present and no string of an integer.
C20_BadCursorRejected ==
  \A r \in RpcHandled :
    /\ (/\ Calls(r.request, M_getMessages)
        /\ Get(Get(r.request, K_params), K_cursor).t \notin {"null", "str"})
       => ErrorOf(r, JSONRPC_INVALID_PARAMS)
    /\ (/\ Calls(r.request, M_getMedia)
        /\ Get(Get(r.request, K_params), K_cursor) # None
        /\ ~(/\ Get(Get(r.request, K_params), K_cursor).t = "str"
             /\ IsPyIntText(Get(Get(r.request, K_params), K_cursor).s)))
       => ErrorOf(r, JSONRPC_INVALID_PARAMS)

\* The codes of the errors found before a handler's store call: parse,
\* invalid request, method not found, invalid parameters.
RejectCodes ==
  {JSONRPC_PARSE_ERROR, JSONRPC_INVALID_REQUEST, JSONRPC_METHOD_NOT_FOUND,
   JSONRPC_INVALID_PARAMS}

\* C16: a request that ends in a parse, invalid-request, method-not-found or
\* invalid-parameters error, and one whose handler signals a validation
\* failure, has called no store function; a frame that holds no request
\* object is answered with one of these errors and nothing else.
C16_RejectedMakesNoStoreCall ==
  /\ \A r \in RpcHandled :
       (\/ \E code \in RejectCodes : ErrorOf(r, code)
        \/ r.out.raised = RaiseJSONRPCError(JSONRPC_INVALID_PARAMS))
       => r.out.calls = 0
  /\ (ws.last # NoEntry /\ ws.last.handled = <<>>) =>
       /\ Len(ws.last.sent) = 1
       /\ ws.last.sent[1].responses[1].code \in RejectCodes

\* A getMessages request whose params are an array was answered with the
\* invalid-parameters error, with rows in the store and no store call.
C16_Witness ==
  /\ messages # {}
  /\ \E r \in RpcHandled :
       /\ Get(r.request, K_method) = JStr(M_getMessages)
       /\ Get(r.request, K_params).t = "list"
       /\ ErrorOf(r, JSONRPC_INVALID_PARAMS)
       /\ r.out.calls = 0

(***************************************************************************)
(* getMessages over a store of more than MAX_MESSAGES_LIMIT messages       *)
(***************************************************************************)

\* The messages table of a database file that earlier runs filled: n
\* messages without text, those of odd id half a second later than the rest.
ClampRows(n) ==
  { RowOfMessage(Message(id, 1, 1, IF id % 2 = 1 THEN DateTime(1, 0)
                                   ELSE DateTime(0, 500000), None)) : id \in 1..n }

\* The number of messages in the file: one less than the maximum.
ClampSize == MAX_MESSAGES_LIMIT - 1

\* The limits the clients ask for: around the maximum, and far above it.
ClampLimits ==
  {MAX_MESSAGES_LIMIT - 1, MAX_MESSAGES_LIMIT, MAX_MESSAGES_LIMIT + 1,
   MAX_MESSAGES_LIMIT + 2, 5 * MAX_MESSAGES_LIMIT}

\* The number of messages that arrive after the start.
ClampMore == 4

\* The connection is open on a database that holds messages already.
InitClamp ==
  /\ messages = ClampRows(ClampSize)
  /\ durable = Database(ClampRows(ClampSize), {}, {})
  /\ messages_fts = {}
  /\ chats = {}
  /\ last_write = NoWrite
  /\ QueryInit /\ CodecInit /\ ConnReady /\ RpcInit /\ ExtraInit

\* A message that arrives while the clients page.
ClampInsert ==
  /\ client.phase = "idle"
  /\ Cardinality(messages) < ClampSize + ClampMore
  /\ InsertMessage(Message(Cardinality(messages) + 1, 1, 1, DateTime(1, 0), None))

StartClamped ==
  \E limit \in ClampLimits : ClientStart("run", GetMessagesParams(NoFilters, JInt(limit), Absent))

ClampNext ==
  \/ ClampInsert
  \/ StartClamped
  \/ GetMessagesList
  \/ GetMessagesCount

SpecClamp == InitClamp /\ [][ClampNext]_vars

\* C19: for a positive integer limit a getMessages response is a result that
\* holds at most limit messages and at most 200: a limit above 200 is
\* clamped, not refused.
C19_LimitClamped ==
  (client.pages > 0 /\ IsPositiveInteger(client.params.limit)) =>
    /\ client.response.kind = "result"
    /\ Len(client.response.messages) <= client.params.limit.n
    /\ Len(client.response.messages) <= MAX_MESSAGES_LIMIT

\* A request with a limit above 200 was answered with 200 messages and
\* has_more.
C19_Witness ==
  /\ client.pages > 0
  /\ client.params.limit.n > MAX_MESSAGES_LIMIT
  /\ client.response.kind = "result"
  /\ Len(client.response.messages) = MAX_MESSAGES_LIMIT
  /\ client.response.has_more

\* A filter of the params that is given and not of the type of its column:
\* chat_id or sender_id no integer, or keyword, media_type, date_from or
\* date_to no string.
WrongTypeFilter(params) ==
  \/ \E k \in {K_chat_id, K_sender_id} : Get(params, k).t \notin {"null", "int"}
  \/ \E k \in {K_keyword, K_media_type, K_date_from, K_date_to} :
       Get(params, k).t \notin {"null", "str"}

\* C21: a request to a known operation with a filter parameter of the wrong
\* type is answered with the invalid-parameters error, and no store function
\* is called for it.
C21_WrongTypeFilterRejected ==
  \A r \in RpcHandled :
    (/\ \E m \in METHOD_HANDLERS \ {M_getChats} : Calls(r.request, m)
     /\ WrongTypeFilter(Get(r.request, K_params)))
    => ErrorOf(r, JSONRPC_INVALID_PARAMS) /\ r.out.calls = 0

\* The object entries of the batch in the last frame, in their order
\* (no entries when the frame was no array).
BatchObjects ==
  IF ws.last.parsed.ok /\ ws.last.parsed.v.t = "list"
  THEN SelectSeq(ws.last.parsed.v.e, IsDict)
  ELSE <<>>

\* C22: a batch with at least one object entry is answered with one array
\* that holds a response for each object entry, in the order of the entries;
\* entries that are no objects are dropped, and an entry that fails has an
\* error response at its position.
C22_BatchAnsweredInOrder ==
  Len(BatchObjects) > 0 =>
    /\ Len(ws.last.sent) = 1
    /\ ws.last.sent[1].batch
    /\ Len(ws.last.sent[1].responses) = Len(BatchObjects)
    /\ \A i \in 1..Len(BatchObjects) :
         /\ i <= Len(ws.last.handled)
         /\ ws.last.handled[i].request = BatchObjects[i]
         /\ ws.last.handled[i].out.kind = "response"
         /\ ws.last.sent[1].responses[i] = ws.last.handled[i].out.response
         /\ ResponseId(ws.last.sent[1].responses[i]) = Get(BatchObjects[i], K_id)

\* C23: an empty batch, and a batch in which no entry is an object, is
\* answered with exactly one invalid-request error that is no array and has
\* no id, and no store function is called.
C23_EmptyBatchInvalidRequest ==
  (ws.last.parsed.ok /\ ws.last.parsed.v.t = "list" /\ Len(BatchObjects) = 0) =>
    /\ ws.last.handled = <<>>
    /\ Len(ws.last.sent) = 1
    /\ ~ws.last.sent[1].batch
    /\ Len(ws.last.sent[1].responses) = 1
    /\ ws.last.sent[1].responses[1].error
    /\ ws.last.sent[1].responses[1].code = JSONRPC_INVALID_REQUEST
    /\ ~ws.last.sent[1].responses[1].has_id

\* A batch that holds entries and no object was answered.
C23_Witness ==
  /\ ws.last.parsed.ok
  /\ ws.last.parsed.v.t = "list"
  /\ Len(ws.last.parsed.v.e) > 0
  /\ Len(BatchObjects) = 0
  /\ Len(ws.last.sent) = 1
  /\ ws.open

\* The last frame of the connection was no JSON text.
LastGarbled == ws.malformed

\* C28: a message that is no well-formed JSON is answered with one
\* parse-error response without id and nothing is executed for it; the
\* connection stays open, and a request that arrives later on it is answered.
C28_ParseErrorKeepsConnection ==
  /\ [](LastGarbled =>
          /\ ws.last.handled = <<>>
          /\ ws.last.sent =
               <<Frame(FALSE, <<create_error_response(JSONRPC_PARSE_ERROR, "Invalid JSON", None)>>)>>
          /\ ~ws.last.sent[1].responses[1].has_id)
  /\ []((ws.garbled /\ ws.last.parsed.ok /\ ws.last.parsed.v = ValidRequest(M_getUsers)
         /\ ws.last.handled[1].out.raised = "-") =>
          /\ Len(ws.last.sent) = 1
          /\ ~ws.last.sent[1].responses[1].error
          /\ ResponseId(ws.last.sent[1].responses[1]) = JInt(7))
  /\ [][(ws.open /\ ~ws.garbled /\ ws'.garbled) => ws'.open]_vars


(***************************************************************************)
(* Full-text search (db.py: search_messages_fulltext)                      *)
(***************************************************************************)

\* The operators of an FTS5 query; they are operators in upper case only.
FtsAnd == <<"A", "N", "D">>
FtsOr == <<"O", "R">>
FtsNot == <<"N", "O", "T">>

\* The run of characters other than spaces that starts at index i of s.
WordAt(s, i) ==
  SubSeq(s, i, CHOOSE j \in i..Len(s) :
                 /\ j = Len(s) \/ s[j + 1] = " "
                 /\ \A k \in i..j : s[k] # " ")

\* The k-th of a set of indices, in increasing order.
Nth(indices, k) == CHOOSE i \in indices : Cardinality({j \in indices : j < i}) = k - 1

\* The words that start at the given indices of s.
WordsAt(s, starts) == [k \in 1..Cardinality(starts) |-> WordAt(s, Nth(starts, k))]

\* The words of a string, in its order.
SplitWords(s) ==
  CHOOSE w \in { WordsAt(s, starts) :
                   starts \in {{ i \in 1..Len(s) : s[i] # " " /\ (i = 1 \/ s[i - 1] = " ") }} } :
    TRUE

\* The runs of a sequence between the given cuts.
RunsBetween(seq, cuts) ==
  [k \in 1..(Cardinality(cuts) - 1) |-> SubSeq(seq, Nth(cuts, k) + 1, Nth(cuts, k + 1) - 1)]

\* The runs of a sequence between the occurrences of sep, in its order.
SplitOn(seq, sep) ==
  CHOOSE r \in { RunsBetween(seq, cuts) :
                   cuts \in {{ i \in 1..Len(seq) : seq[i] = sep } \cup {0, Len(seq) + 1}} } :
    TRUE

\* The elements of a sequence.
Elements(seq) == { seq[i] : i \in 1..Len(seq) }

LowerStr(s) == [i \in 1..Len(s) |-> Lower(s[i])]

\* Words next to each other are ANDed: each is a token of the entry.
PhraseMatch(tokens, words) == \A i \in 1..Len(words) : LowerStr(words[i]) \in tokens

\* a NOT b NOT c: the first operand matches and none of the others does.
NotMatch(tokens, words) ==
  \E operands \in {SplitOn(words, FtsNot)} :
    /\ PhraseMatch(tokens, operands[1])
    /\ \A k \in 2..Len(operands) : ~PhraseMatch(tokens, operands[k])

\* messages_fts MATCH ? for a query of letters, digits and spaces: OR binds
\* least, then AND, then NOT, and words next to each other bind most.
Fts5Match(tokens, words) ==
  \E alternative \in Elements(SplitOn(words, FtsOr)) :
    \A operand \in Elements(SplitOn(alternative, FtsAnd)) : NotMatch(tokens, operand)

\* "fts5: syntax error": the query has no word, or an operator lacks an operand.
Fts5SyntaxError(words) ==
  \E alternative \in Elements(SplitOn(words, FtsOr)) :
    \E operand \in Elements(SplitOn(alternative, FtsAnd)) :
      \E phrase \in Elements(SplitOn(operand, FtsNot)) : Len(phrase) = 0

\* The bounds the date conditions take when only one of them is given.
DATE_MIN ==
  <<"0", "0", "0", "1", "-", "0", "1", "-", "0", "1", "T", "0", "0", ":", "0", "0", ":", "0", "0">>
DATE_MAX ==
  <<"9", "9", "9", "9", "-", "1", "2", "-", "3", "1", "T", "2", "3", ":", "5", "9", ":", "5", "9">>

\* The date conditions: both are added when one of the dates is given.
FulltextDates(row, date_from, date_to) ==
  (Truthy(date_from) \/ Truthy(date_to)) =>
    /\ SqlTextGreaterEq(row.date, IF Truthy(date_from) THEN date_from ELSE JStr(DATE_MIN))
    /\ SqlTextLessEq(row.date, IF Truthy(date_to) THEN date_to ELSE JStr(DATE_MAX))

\* FROM messages m JOIN messages_fts ON m.id = messages_fts.rowid WHERE ...
FulltextRows(db, words, date_from, date_to) ==
  { m \in db.messages :
      /\ \E e \in db.messages_fts : e.rowid = m.id /\ Fts5Match(e.tokens, words)
      /\ FulltextDates(m, date_from, date_to) }

\* LIMIT n: a negative n is no limit.
SqlLimit(rows, n) == IF n < 0 THEN rows ELSE Limit(rows, n)

\* has_more for a page that is not empty.
HasMoreNotEmpty(rows, limit) == Len(rows) > 0

\* "has_more": len(messages) == limit
HasMoreFull(rows, limit) == Len(rows) = limit

\* What search_messages_fulltext returns for the rows fetched.
SearchResult(query, date_from, date_to, limit, rows) ==
  [called |-> TRUE, op |-> "search_messages_fulltext",
   query |-> query, date_from |-> date_from, date_to |-> date_to,
   limit |-> limit, raised |-> "-",
   messages |-> [i \in 1..Len(rows) |-> MessageOfRow(rows[i])],
   count |-> Len(rows),
   has_more |-> HasMoreFull(rows, limit)]

SearchRaised(query, date_from, date_to, limit, exc) ==
  [called |-> TRUE, op |-> "search_messages_fulltext",
   query |-> query, date_from |-> date_from, date_to |-> date_to,
   limit |-> limit, raised |-> exc, messages |-> <<>>, count |-> 0, has_more |-> FALSE]

\* The query with the words of its MATCH parameter.
ExecuteSearch(db, words, query, date_from, date_to, limit) ==
  IF Fts5SyntaxError(words)
  THEN SearchRaised(query, date_from, date_to, limit, "OperationalError")
  ELSE CHOOSE r \in { SearchResult(query, date_from, date_to, limit, SqlLimit(rows, limit)) :
                        rows \in {OrderByDateIdDesc(
                                    FulltextRows(db, words, date_from, date_to))} } :
         TRUE

\* search_messages_fulltext(query, date_from, date_to, limit)
search_messages_fulltext(db, query, date_from, date_to, limit) ==
  CHOOSE r \in { ExecuteSearch(db, words, query, date_from, date_to, limit) :
                   words \in {SplitWords(query)} } :
    TRUE

\* A search that takes what it found out of the index.
SearchMessagesConsuming(query, date_from, date_to, limit) ==
  /\ \E result \in {search_messages_fulltext(View, query, date_from, date_to, limit)} :
       /\ found' = result
       /\ messages_fts' =
            {e \in messages_fts :
               \A i \in 1..Len(result.messages) : result.messages[i].id # e.rowid}
  /\ attempt' = NoAttempt
  /\ UNCHANGED <<messages, chats, durable, last_write>>
  /\ UNCHANGED <<queryVars, codecVars, connVars, rpcVars, users, media, pager, backfill>>

\* A search is made and returns, or raises.
SearchMessagesFulltext(query, date_from, date_to, limit) ==
  /\ \E result \in {search_messages_fulltext(View, query, date_from, date_to, limit)} :
       found' = result
  /\ attempt' = NoAttempt
  /\ UNCHANGED <<storeVars, queryVars, codecVars, connVars, rpcVars, users, media, pager, backfill>>

(***************************************************************************)
(* The search model: messages are written, and searched between writes.    *)
(***************************************************************************)

\* The messages have one date, but that the first may have a later one. The
\* texts: none, one with a word in capitals, one that shares a word with it.
SearchIds == {1, 2}
SearchDates(id) == IF id = 1 THEN {DateTime(0, 0), DateTime(1, 0)} ELSE {DateTime(0, 0)}
SearchTexts == {None, JStr(<<"d", "o", " ", "N", "O", "T">>), JStr(<<"H", "i", " ", "d", "o">>)}
SearchPool ==
  { Message(w[1], 1, 1, w[2], w[3]) :
      w \in { x \in SearchIds \X {DateTime(0, 0), DateTime(1, 0)} \X SearchTexts :
                x[2] \in SearchDates(x[1]) } }

\* The queries: words of the texts, as written and in lower case.
SearchQueries == { <<"h", "i">>, <<"d", "o">>, <<"N", "O", "T">> }
SearchFrom == {None, JStr(isoformat(DateTime(1, 0)))}

\* found is the last search since the last write: a write forgets it.
SearchWrite == found' = NoFound /\ UNCHANGED <<queryVars, codecVars, connVars, rpcVars, users, media, pager, backfill>>

\* An insert_message call: the row it binds, the exception it raised, and the
\* row and the index entries of that id that the table had before the call.
Attempt(db, row, raised) ==
  [called |-> TRUE, op |-> "insert_message", row |-> row, raised |-> raised,
   existing |-> {r \in db.messages : r.id = row.id},
   indexed |-> {e \in db.messages_fts : e.rowid = row.id}]

\* insert_message(message) is called and returns, or raises IntegrityError.
SearchInsert ==
  \E m \in SearchPool :
    /\ insert_message(m)
    /\ attempt' = Attempt(View, RowOfMessage(m),
                          IF SqlInsertMessage(View, RowOfMessage(m)).ok THEN "-"
                          ELSE "IntegrityError")
    /\ SearchWrite

SearchUpdate ==
  \E id \in SearchIds, text \in SearchTexts :
    update_message_text(id, text) /\ attempt' = NoAttempt /\ SearchWrite

SearchDelete == \E id \in SearchIds : delete_message(id) /\ attempt' = NoAttempt /\ SearchWrite

SearchCall ==
  \E query \in SearchQueries, date_from \in SearchFrom, limit \in SearchIds :
    SearchMessagesFulltext(query, date_from, None, limit)

SearchNext ==
  \/ SearchInsert
  \/ SearchUpdate
  \/ SearchDelete
  \/ SearchCall

SpecSearch == Init /\ [][SearchNext]_vars

\* The words of a message text as they are written; a null text has none.
WordsOfText(text) == IF text.t = "str" THEN Elements(SplitWords(text.s)) ELSE {}

\* The message of that id is in the result of the last search.
Found(id) == \E i \in 1..Len(found.messages) : found.messages[i].id = id

\* C24: a search for a word returns every message in the table whose text
\* contains the word (when the limit covers the table and no date is given),
\* and returns only messages that are in the table with a text that contains
\* the word, so none that was deleted, whose text was updated to omit the
\* word, or whose text is null.
C24_SearchFollowsWrites ==
  found.called =>
    /\ (found.date_from = None /\ found.limit >= Cardinality(messages)) =>
         \A m \in messages :
           found.query \in WordsOfText(m.text) => found.raised = "-" /\ Found(m.id)
    /\ \A i \in 1..Len(found.messages) :
         \E m \in messages :
           /\ m.id = found.messages[i].id
           /\ m.text.t = "str"
           /\ LowerStr(found.query) \in { LowerStr(w) : w \in WordsOfText(m.text) }


\* Whether message a is newer than message b, and for one date has the
\* greater id.
NewerFirst(a, b) ==
  \/ a.date.sec > b.date.sec
  \/ a.date.sec = b.date.sec /\ a.date.usec > b.date.usec
  \/ a.date = b.date /\ a.id > b.id

\* C27: a full-text search that returns has at most limit rows, newest
\* first and for one date the greater id first, and has_more is true exactly
\* when it returned limit rows.
C27_SearchPage ==
  (found.called /\ found.raised = "-") =>
    /\ Len(found.messages) <= found.limit
    /\ \A i \in 1..Len(found.messages), j \in 1..Len(found.messages) :
         i < j => NewerFirst(found.messages[i], found.messages[j])
    /\ found.has_more <=> Len(found.messages) = found.limit

\* A search returned a full page of two messages, the newer one first.
C27_Witness ==
  /\ found.called
  /\ found.raised = "-"
  /\ found.limit = 2
  /\ Len(found.messages) = 2
  /\ found.messages[1].id = 1
  /\ found.has_more


\* C30: insert_message of a message whose id is in the table raises, and
\* the row of that id and its index entry are afterwards what they were, in
\* the connection's view and in the committed database.
C30_DuplicateInsertFails ==
  (attempt.called /\ attempt.existing # {}) =>
    /\ attempt.raised = "IntegrityError"
    /\ {r \in messages : r.id = attempt.row.id} = attempt.existing
    /\ {e \in messages_fts : e.rowid = attempt.row.id} = attempt.indexed
    /\ {r \in durable.messages : r.id = attempt.row.id} = attempt.existing
    /\ {e \in durable.messages_fts : e.rowid = attempt.row.id} = attempt.indexed

\* insert_message was called with an id of the table and another text than
\* the row of that id has.
C30_Witness ==
  /\ attempt.called
  /\ \E r \in attempt.existing : r.text # attempt.row.text /\ r.text # None
  /\ attempt.indexed # {}


(***************************************************************************)
(* The upsert model: chats and users are upserted in any order.            *)
(***************************************************************************)

\* The Chat and User dataclasses; the title and the first name are strings,
\* the other fields are optional.
Chat(id, title, username) == [id |-> id, title |-> title, username |-> username]
User(id, username, first_name, last_name) ==
  [id |-> id, username |-> username, first_name |-> first_name, last_name |-> last_name]

UpsertIds == {1, 2}
UpsertNames == {JStr(<<"a">>), JStr(<<"b">>)}
UpsertChats == { Chat(id, t, u) : id \in UpsertIds, t \in UpsertNames, u \in {None, JStr(<<"u">>)} }
UpsertUsers ==
  { User(id, u, f, l) :
      id \in UpsertIds, u \in {None, JStr(<<"u">>)}, f \in UpsertNames, l \in {None, JStr(<<"l">>)} }

\* An upsert call: the entity it binds and the rows of that id before it.
Upsert(op, table, row) ==
  [called |-> TRUE, op |-> op, row |-> row, raised |-> "-",
   existing |-> {r \in table : r.id = row.id}, indexed |-> {}]

\* insert_or_update_chat(chat) is called and returns.
UpsertChat ==
  \E chat \in UpsertChats :
    /\ insert_or_update_chat(chat)
    /\ attempt' = Upsert("insert_or_update_chat", chats, chat)
    /\ UNCHANGED <<queryVars, codecVars, connVars, rpcVars, users, media, found, pager, backfill>>

\* insert_or_update_user(user): the upsert, then commit.
insert_or_update_user(user) == users' = SqlUpsertUser(users, user)

\* insert_or_update_user(user) is called and returns.
UpsertUser ==
  \E user \in UpsertUsers :
    /\ insert_or_update_user(user)
    /\ attempt' = Upsert("insert_or_update_user", users, user)
    /\ UNCHANGED <<storeVars, queryVars, codecVars, connVars, rpcVars, media, found, pager, backfill>>

UpsertNext ==
  \/ UpsertChat
  \/ UpsertUser

SpecUpsert == Init /\ [][UpsertNext]_vars

\* The table upserted last, before the call (but for the row) and after it.
Upserted == IF attempt.op = "insert_or_update_chat" THEN chats ELSE users

\* C25: the chats and the users tables have one row for an id, and after an
\* upsert the row of its id has the fields of the upsert, in the committed
\* database as well: so an upsert made twice leaves what it left once.
C25_UpsertKeyedById ==
  /\ \A a \in chats, b \in chats : a.id = b.id => a = b
  /\ \A a \in users, b \in users : a.id = b.id => a = b
  /\ durable.chats = chats
  /\ attempt.called => {r \in Upserted : r.id = attempt.row.id} = {attempt.row}

\* An upsert was made for an id that had a row with another title, or with
\* another first name.
C25_Witness ==
  /\ attempt.called
  /\ \/ /\ attempt.op = "insert_or_update_chat"
        /\ \E r \in attempt.existing : r.title # attempt.row.title
        /\ Cardinality(users) = 2
     \/ /\ attempt.op = "insert_or_update_user"
        /\ \E r \in attempt.existing : r.first_name # attempt.row.first_name
        /\ Cardinality(chats) = 2


(***************************************************************************)
(* Media (db.py: insert_media, get_media_with_filters; server.py:          *)
(* handle_get_media)                                                       *)
(***************************************************************************)

\* The Media dataclass, and a row of the media table.
Media(msg_id, chat_id, media_type, media_id) ==
  [msg_id |-> msg_id, chat_id |-> chat_id, media_type |-> media_type, media_id |-> media_id]

\* INSERT OR REPLACE INTO media: (msg_id, chat_id) is the primary key.
SqlReplaceMedia(table, row) ==
  {r \in table : r.msg_id # row.msg_id \/ r.chat_id # row.chat_id} \cup {row}

\* The conditions of get_media_with_filters, ANDed.
MediaWhere(row, chat_id, media_type, cursor) ==
  /\ chat_id # None => SqlIntEq(row.chat_id, chat_id)
  /\ Truthy(media_type) => media_type.t = "str" /\ row.media_type = media_type.s
  /\ Truthy(cursor) => SqlIntLess(row.msg_id, cursor)

\* ORDER BY msg_id DESC: rows of one msg_id come in an order SQLite is free
\* to choose; ties names it, by the chat_id upwards or downwards.
MediaBefore(a, b, ties) ==
  \/ a.msg_id > b.msg_id
  \/ /\ a.msg_id = b.msg_id
     /\ IF ties = "up" THEN a.chat_id < b.chat_id ELSE a.chat_id > b.chat_id

MediaInOrder(rows, ties) ==
  CHOOSE s \in { RowsByRank(rows, rank) :
                   rank \in {[r \in rows |-> Cardinality({x \in rows : MediaBefore(x, r, ties)})]} } :
    TRUE

\* What get_media_with_filters returns for the rows of its query.
MediaResult(rows, limit) ==
  [media |-> Limit(rows, limit),
   has_more |-> Len(rows) > limit,
   next_cursor |-> IF Len(rows) > limit /\ limit > 0 THEN JInt(rows[limit].msg_id) ELSE None]

\* get_media_with_filters(chat_id, media_type, limit, cursor)
get_media_with_filters(table, chat_id, media_type, limit, cursor, ties) ==
  CHOOSE r \in { MediaResult(Limit(rows, limit + 1), limit) :
                   rows \in {MediaInOrder({ m \in table : MediaWhere(m, chat_id, media_type, cursor) },
                                          ties)} } :
    TRUE

\* int(cursor_str) of the text of an integer.
PyInt(s) ==
  IF Strip(s)[1] = "-" THEN 0 - DigitsValue(Strip(s), 2, Len(Strip(s)) + 1)
  ELSE IF Strip(s)[1] = "+" THEN DigitsValue(Strip(s), 2, Len(Strip(s)) + 1)
  ELSE DigitsValue(Strip(s), 1, Len(Strip(s)) + 1)

\* The cursor handle_get_media passes on: None, or int(cursor_str).
MediaCursor(cursor_str) ==
  IF cursor_str.t = "str" THEN JInt(PyInt(cursor_str.s))
  ELSE IF cursor_str.t = "null" THEN None
  ELSE JInt(cursor_str.n)

\* The result handle_get_media returns: the next cursor as a string, when it
\* is true.
MediaResponse(result) ==
  [media |-> result.media,
   next_cursor |-> IF Truthy(result.next_cursor) THEN JStr(IntToStr(result.next_cursor.n))
                   ELSE None,
   has_more |-> result.has_more]

\* getMedia for parameters that pass the checks of handle_get_media.
GetMedia(table, chat_id, limit, cursor_str, ties) ==
  MediaResponse(get_media_with_filters(table, chat_id, None, limit, MediaCursor(cursor_str), ties))

(***************************************************************************)
(* The media model: media rows are stored, then a client pages through     *)
(* them and the table stays as it is.                                      *)
(***************************************************************************)

MediaPages == 5

\* Two chats may have media for one msg_id, and a msg_id may be 0.
MediaPool == { Media(m, c, <<"p">>, <<"x">>) : m \in {0, 1, 2}, c \in {1, 2} }
MediaChats == {None, JInt(1)}
MediaLimits == {1, 2}

\* insert_media(media): the INSERT OR REPLACE, then commit.
insert_media(row) == media' = SqlReplaceMedia(media, row)

MediaInsert ==
  \E row \in MediaPool :
    /\ pager.phase = "idle"
    /\ insert_media(row)
    /\ UNCHANGED <<storeVars, queryVars, codecVars, connVars, rpcVars, users, found, pager, attempt, backfill>>

\* The client after a response: it asks again while has_more is true and it
\* has a cursor to ask with.
Paged(chat_id, limit, response) ==
  [phase |-> IF ~response.has_more THEN "done"
             ELSE IF response.next_cursor = None THEN "stuck" ELSE "paging",
   chat_id |-> chat_id, limit |-> limit, cursor |-> response.next_cursor,
   received |-> pager.received \o response.media, pages |-> pager.pages + 1,
   has_more |-> response.has_more, next_cursor |-> response.next_cursor]

\* The client sends its first request, without cursor, and gets the response.
PagerStart ==
  \E chat_id \in MediaChats, limit \in MediaLimits, ties \in {"up", "down"} :
    /\ pager.phase = "idle"
    /\ \E response \in {GetMedia(media, chat_id, limit, None, ties)} :
         pager' = Paged(chat_id, limit, response)
    /\ UNCHANGED <<storeVars, queryVars, codecVars, connVars, rpcVars, users, media, found, attempt, backfill>>

\* The client sends the next request, with the cursor of the last response.
PagerNext ==
  \E ties \in {"up", "down"} :
    /\ pager.phase = "paging"
    /\ pager.pages < MediaPages
    /\ \E response \in {GetMedia(media, pager.chat_id, pager.limit, pager.cursor, ties)} :
         pager' = Paged(pager.chat_id, pager.limit, response)
    /\ UNCHANGED <<storeVars, queryVars, codecVars, connVars, rpcVars, users, media, found, attempt, backfill>>

MediaNext ==
  \/ MediaInsert
  \/ PagerStart
  \/ PagerNext

SpecMedia == Init /\ [][MediaNext]_vars

\* The rows of the table that the client's filter selects.
PagerMatching == { r \in media : pager.chat_id = None \/ r.chat_id = pager.chat_id.n }

\* C29: when the client has followed next_cursor until has_more was false,
\* it has received every row its filter selects, each once, with msg_id never
\* increasing; and whenever a response has has_more true, its next_cursor is
\* not null.
C29_MediaPagingComplete ==
  /\ pager.phase = "done" =>
       /\ \A r \in PagerMatching : \E i \in 1..Len(pager.received) : pager.received[i] = r
       /\ \A i \in 1..Len(pager.received), j \in 1..Len(pager.received) :
            i < j => pager.received[i] # pager.received[j]
                     /\ pager.received[i].msg_id >= pager.received[j].msg_id
  /\ pager.phase # "idle" => (pager.has_more => pager.next_cursor # None)


\* Task t's get_db_connection call returns a handle in this step.
GetReturns(t) ==
  /\ tasks[t].pc \in {"idle", "lock", "schema"}
  /\ tasks'[t] # tasks[t]
  /\ tasks'[t].pc = "idle"
  /\ tasks'[t].result = "handle"

\* Some task is inside close() on handle h.
BeingClosed(h) == \E u \in Tasks : tasks[u].pc = "close" /\ tasks[u].h = h

\* C26: when close_db completes, the handle it closed is released and the
\* shared reference is None; a get_db_connection call that returns a handle
\* returns one on which the schema initialization has completed, that is
\* open and that no close_db call is closing.
C26_CloseThenReopen ==
  /\ [][\A t \in Tasks :
          (tasks[t].pc = "close" /\ tasks'[t].pc # "close") =>
            ~handles'[tasks[t].h].open /\ db_connection' = 0]_vars
  /\ [][\A t \in Tasks :
          GetReturns(t) =>
            /\ handles'[tasks'[t].h].open
            /\ handles'[tasks'[t].h].initialized
            /\ ~BeingClosed(tasks'[t].h)]_vars


\* C31: a get_db_connection call never returns a handle on which a statement
\* of the initialization has raised, so on which the schema initialization
\* never completed.
C31_NoPartialHandleReturned ==
  [][\A t \in Tasks :
       GetReturns(t) =>
         ~(handles'[tasks'[t].h].failed /\ ~handles'[tasks'[t].h].initialized)]_vars


\* C32: the total_count of a getMessages response is at least the number of
\* messages in the response, also when messages were inserted between the
\* two queries of the request.
C32_TotalCountCoversPage ==
  client.response.kind = "result" =>
    client.response.total_count >= Len(client.response.messages)

\* The first response of a run, with messages in it, after an insert between
\* its two queries that the count query saw.
C32_Witness ==
  /\ client.kind = "run"
  /\ client.pages = 1
  /\ ~client.stable
  /\ client.response.kind = "result"
  /\ Len(client.response.messages) > 0
  /\ client.response.total_count > Cardinality(RunMatching(client.first_table))


\* close_db has closed a handle: the only caller of close_db is
\* TeleConvoApp.shutdown.
ShutdownClosed == \E h \in 1..Len(handles) : ~handles[h].open

\* C33: once shutdown has closed the database no handle is opened again by
\* the get_db_connection calls of request handling that still runs, and two
\* overlapping shutdowns never close the same handle.
C33_NoReopenAfterShutdown ==
  /\ [][ShutdownClosed => Len(handles') = Len(handles)]_vars
  /\ [](\A t \in Tasks, u \in Tasks :
          (t # u /\ tasks[t].pc = "close" /\ tasks[u].pc = "close") =>
            tasks[t].h # tasks[u].h)


(***************************************************************************)
(* The query model: the five query operations between writes.              *)
(***************************************************************************)

\* ORDER BY of a TEXT column, ascending: NULL comes first.
TextBefore(a, b) == b # None /\ (a = None \/ StrLess(a.s, b.s))

\* ORDER BY title
ChatBefore(a, b) == TextBefore(a.title, b.title)

\* ORDER BY first_name, last_name
UserBefore(a, b) ==
  \/ TextBefore(a.first_name, b.first_name)
  \/ a.first_name = b.first_name /\ TextBefore(a.last_name, b.last_name)

\* The orders the rows of a result may come in: each row once, and a row
\* that the ORDER BY puts before another comes before it.
ResultOrders(rows, Before(_, _)) ==
  { s \in [1..Cardinality(rows) -> rows] :
      \A i \in DOMAIN s, j \in DOMAIN s :
        /\ i # j => s[i] # s[j]
        /\ Before(s[j], s[i]) => j < i }

\* get_all_chats(): the lists it may return.
get_all_chats(table) == ResultOrders(table, ChatBefore)

\* The WHERE clause of search_users; without keyword there is none.
UserWhere(u, keyword) ==
  Truthy(keyword) =>
    \/ SqlLike(u.username, LikePattern(keyword))
    \/ SqlLike(u.first_name, LikePattern(keyword))
    \/ SqlLike(u.last_name, LikePattern(keyword))

\* search_users(keyword, limit): the results it may return, limit + 1 rows
\* being fetched.
search_users(table, keyword, limit) ==
  { [users |-> Limit(s, limit), has_more |-> Len(Limit(s, limit + 1)) > limit,
     next_cursor |-> None] :
      s \in ResultOrders({u \in table : UserWhere(u, keyword)}, UserBefore) }

\* handle_get_chats calls get_all_chats, which returns.
GetChats ==
  /\ \E list \in get_all_chats(chats) :
       found' = [NoFound EXCEPT !.called = TRUE, !.op = "get_all_chats",
                                !.messages = list, !.count = Len(list)]
  /\ UNCHANGED <<storeVars, queryVars, codecVars, connVars, rpcVars, users, media, pager, attempt, backfill>>

\* handle_get_users calls search_users, which returns.
GetUsers ==
  \E keyword \in {None, JStr(<<"A">>)}, limit \in {1, 2} :
    /\ \E result \in search_users(users, keyword, limit) :
         found' = [NoFound EXCEPT !.called = TRUE, !.op = "search_users",
                                  !.limit = limit, !.messages = result.users,
                                  !.count = Len(result.users),
                                  !.has_more = result.has_more]
    /\ UNCHANGED <<storeVars, queryVars, codecVars, connVars, rpcVars, users, media, pager, attempt, backfill>>

\* What the writers of the query model store.
QueryMessages ==
  { Message(1, 1, 1, DateTime(1, 0), JStr(<<"H", "i", " ", "d", "o">>)),
    Message(2, 1, 1, DateTime(0, 500000), None) }
QueryChats == { Chat(1, JStr(<<"a">>), None) }
QueryUsers ==
  { User(1, None, JStr(<<"a">>), None), User(2, JStr(<<"u">>), JStr(<<"a">>), JStr(<<"l">>)) }
QueryMedia == { Media(1, 1, <<"p">>, <<"x">>), Media(2, 1, <<"p">>, <<"x">>) }

\* The Telegram side stores a chat, a user, a message or a media row.
QueryWrite ==
  \/ \E chat \in QueryChats : InsertOrUpdateChat(chat)
  \/ \E user \in QueryUsers :
       /\ insert_or_update_user(user)
       /\ UNCHANGED <<storeVars, queryVars, codecVars, connVars, rpcVars, media, found, pager, attempt, backfill>>
  \/ \E m \in QueryMessages : InsertMessage(m)
  \/ \E row \in QueryMedia :
       /\ insert_media(row)
       /\ UNCHANGED <<storeVars, queryVars, codecVars, connVars, rpcVars, users, found, pager, attempt, backfill>>

\* One client at a time asks: the pagination run, the media pager, or the
\* caller of search, getChats and getUsers.
RunTurn == pager.phase = "idle" /\ ~found.called
PagerTurn == client.phase = "idle" /\ ~found.called
CallerTurn == client.phase = "idle" /\ pager.phase = "idle"

QueryNext ==
  \/ QueryWrite
  \/ RunTurn /\ StartRun
  \/ RunTurn /\ GetMessagesList
  \/ RunTurn /\ GetMessagesCount
  \/ PagerTurn /\ PagerStart
  \/ PagerTurn /\ PagerNext
  \/ CallerTurn /\ SearchCall
  \/ CallerTurn /\ GetChats
  \/ CallerTurn /\ GetUsers

SpecQuery == Init /\ [][QueryNext]_vars

\* A step in which a query of one of the five operations returns.
QueryReturns ==
  \/ req' # req
  \/ pager' # pager
  \/ found' # found /\ found'.called

\* C34: getMessages with its count, getChats, getUsers, getMedia and search
\* leave the contents of the chats, users, messages and media tables and of
\* the full-text index unchanged.
C34_QueriesLeaveTables ==
  [][QueryReturns => UNCHANGED <<chats, users, messages, media, messages_fts, backfill>>]_vars

\* A search has returned messages while every table had rows.
C34_Witness ==
  /\ found.op = "search_messages_fulltext"
  /\ Len(found.messages) > 0
  /\ chats # {} /\ users # {} /\ media # {} /\ messages_fts # {}


(***************************************************************************)
(* The connection loop step by step: frames arrive while one is handled.   *)
(***************************************************************************)

\* No more than MaxFrames frames arrive on the connection.
MaxFrames == 3

\* The newest frame first.
DequeueNewest(inbox) ==
  [message |-> inbox[Len(inbox)], rest |-> SubSeq(inbox, 1, Len(inbox) - 1)]

\* The frame the loop gets next from "async for message in websocket", and
\* the frames that stay queued: the oldest first.
Dequeue(inbox) == [message |-> Head(inbox), rest |-> Tail(inbox)]

\* The request objects of a frame that handle_jsonrpc_request is called
\* with, in the order of the calls.
RequestsOf(parsed) ==
  IF ~parsed.ok THEN <<>>
  ELSE IF parsed.v.t = "list" THEN SelectSeq(parsed.v.e, IsDict)
  ELSE IF parsed.v.t = "dict" THEN <<parsed.v>>
  ELSE <<>>

Executed(frame, request) == [ev |-> "executed", frame |-> frame, request |-> request]
Sent(frame) == [ev |-> "sent", frame |-> frame, request |-> JNull]

Wire(w) ==
  /\ ws' = [ws EXCEPT !.wire = w]
  /\ UNCHANGED <<storeVars, queryVars, codecVars, connVars, extraVars>>

\* The frames of the model: a request, a batch with an entry that is no
\* object between two requests, a text that is no JSON, a request whose
\* handler raises, and a batch without objects.
WireFrames ==
  { [ok |-> TRUE, v |-> ValidRequest(M_getChats)],
    [ok |-> TRUE,
     v |-> JList(<<ValidRequest(M_getMessages), JInt(5),
                   Request(JStr(Version2), JStr(M_getChats), Absent, JInt(8))>>)],
    JsonLoads(<<"{">>),
    [ok |-> TRUE,
     v |-> Request(JStr(Version2), JStr(M_getUsers), Object(<<JPair(K_limit, JInt(0))>>),
                   JInt(9))],
    [ok |-> TRUE, v |-> JList(<<JInt(5)>>)] }

\* A client connects: handle_websocket_client starts and waits for a frame.
WireConnect ==
  /\ ws.wire.pc = "none"
  /\ Wire([NoWire EXCEPT !.pc = "recv"])

\* A frame arrives from the client and is queued by the library.
WireArrive ==
  \E parsed \in WireFrames :
    /\ ws.wire.pc \in {"recv", "exec", "send"}
    /\ Len(ws.wire.arrivals) < MaxFrames
    /\ Wire([ws.wire EXCEPT !.arrivals = Append(@, parsed),
                            !.inbox = Append(@, Len(ws.wire.arrivals) + 1)])

\* The loop gets a frame and json.loads returns or raises: next comes the
\* first handle_jsonrpc_request call, or the send of an error.
WireTake ==
  /\ ws.wire.pc = "recv"
  /\ ws.wire.inbox # <<>>
  /\ \E d \in {Dequeue(ws.wire.inbox)} :
       \E todo \in {RequestsOf(ws.wire.arrivals[d.message])} :
         Wire([ws.wire EXCEPT !.pc = IF Len(todo) = 0 THEN "send" ELSE "exec",
                              !.inbox = d.rest, !.frame = d.message,
                              !.todo = todo, !.done = 0])

\* The handle_jsonrpc_request call the loop awaits returns, or raises: an
\* exception ends the loop and the connection handler.
WireExec ==
  /\ ws.wire.pc = "exec"
  /\ \E request \in {ws.wire.todo[ws.wire.done + 1]} :
       \E out \in {handle_jsonrpc_request(messages, request, "-")} :
         Wire([ws.wire EXCEPT
                 !.pc = IF out.kind = "escaped" THEN "ended"
                        ELSE IF ws.wire.done + 1 = Len(ws.wire.todo) THEN "send"
                        ELSE "exec",
                 !.done = @ + 1,
                 !.log = Append(@, Executed(ws.wire.frame, request))])

\* The websocket.send the loop awaits returns: the loop waits for a frame.
WireSend ==
  /\ ws.wire.pc = "send"
  /\ Wire([ws.wire EXCEPT !.pc = "recv", !.log = Append(@, Sent(ws.wire.frame))])

WireNext ==
  \/ WireConnect
  \/ WireArrive
  \/ WireTake
  \/ WireExec
  \/ WireSend

\* One connection, whose client sends frames without waiting for responses.
SpecWire == Init /\ [][WireNext]_vars

\* The requests of a frame that the log has as executed, in log order.
ExecutedOf(frame) ==
  [i \in 1..Cardinality({k \in 1..Len(ws.wire.log) :
                           ws.wire.log[k].ev = "executed" /\ ws.wire.log[k].frame = frame}) |->
     ws.wire.log[CHOOSE k \in 1..Len(ws.wire.log) :
       /\ ws.wire.log[k].ev = "executed" /\ ws.wire.log[k].frame = frame
       /\ Cardinality({j \in 1..k :
            ws.wire.log[j].ev = "executed" /\ ws.wire.log[j].frame = frame}) = i].request]

\* C35: on one connection the frames are handled in the order they were
\* received and one at a time: a request is executed only after the response
\* of every earlier frame was sent, nothing of a frame happens after its
\* response was sent, and the request objects of a batch are executed in the
\* order of the array.
C35_OneAtATimeInOrder ==
  /\ \A i \in 1..Len(ws.wire.log), j \in 1..Len(ws.wire.log) :
       i < j =>
         /\ ws.wire.log[i].frame <= ws.wire.log[j].frame
         /\ ws.wire.log[i].ev = "sent" => ws.wire.log[i].frame < ws.wire.log[j].frame
  /\ \A j \in 1..Len(ws.wire.log) :
       ws.wire.log[j].ev = "executed" =>
         \A earlier \in 1..(ws.wire.log[j].frame - 1) :
           \E i \in 1..(j - 1) : ws.wire.log[i] = Sent(earlier)
  /\ \A frame \in 1..Len(ws.wire.arrivals) :
       \E n \in 0..Len(RequestsOf(ws.wire.arrivals[frame])) :
         ExecutedOf(frame) = SubSeq(RequestsOf(ws.wire.arrivals[frame]), 1, n)

\* A batch of two requests was handled and answered while two more frames
\* were waiting, and the request of the next frame was then executed.
C35_Witness ==
  /\ Len(ws.wire.arrivals) = 3
  /\ Len(ExecutedOf(1)) = 2
  /\ \E j \in 1..Len(ws.wire.log) : ws.wire.log[j] = Sent(1)
  /\ Len(ExecutedOf(2)) = 1
  /\ ws.wire.inbox = <<3>>


(***************************************************************************)
(* The backfill (telegram.py: backfill_messages)                           *)
(***************************************************************************)

\* Messages per chunk (100 in telegram.py; the model's chats are short).
BACKFILL_CHUNK_SIZE == 2

MAX_RETRIES == 5

\* No more than MaxFaults store calls raise during a backfill.
MaxFaults == 2

\* The chat at the origin: three messages by one user, the second without
\* sender (0), the newest with a photo.
OriginIds == {1, 2, 3}
Origin(id) == [id |-> id, sender |-> IF id = 2 THEN 0 ELSE 1, media |-> id = 3]

BackfillLimits == {None, JInt(1)}

\* client.get_messages(entity, limit, offset_id) when it returns: the
\* messages older than offset_id (all for 0), the newest first, at most limit.
FetchChunk(offset_id, limit) ==
  [i \in 1..Cardinality({j \in 1..limit :
                          \E id \in OriginIds :
                            /\ offset_id = 0 \/ id < offset_id
                            /\ Cardinality({x \in OriginIds :
                                 (offset_id = 0 \/ x < offset_id) /\ x > id}) = j - 1}) |->
     CHOOSE id \in OriginIds :
       /\ offset_id = 0 \/ id < offset_id
       /\ Cardinality({x \in OriginIds : (offset_id = 0 \/ x < offset_id) /\ x > id}) = i - 1]

\* "if limit and total_fetched >= limit: break", after the try statement.
LimitReached(b) == b.limit # None /\ b.limit.n # 0 /\ b.total_fetched >= b.limit.n

\* The chunk size of the next fetch.
ChunkSize(b) ==
  IF b.limit # None /\ b.limit.n - b.total_fetched < BACKFILL_CHUNK_SIZE
  THEN b.limit.n - b.total_fetched
  ELSE BACKFILL_CHUNK_SIZE

\* _process_message(msg) for a message with a sender.
ProcessMessage(msg) == Message(msg.id, 1, msg.sender, DateTime(0, 0), None)

\* backfill_messages(entity, limit) is called: the chat is stored and the
\* loop is entered.
BackfillStart ==
  \E limit \in BackfillLimits :
    /\ backfill.pc = "idle"
    /\ insert_or_update_chat(Chat(1, JStr(<<"a">>), None))
    /\ backfill' = [NoBackfill EXCEPT !.pc = "fetch", !.limit = limit]
    /\ UNCHANGED <<queryVars, codecVars, connVars, rpcVars, users, media, found, pager, attempt>>

\* The head of the loop and the fetch: the loop is left when nothing remains
\* of the limit or the origin has no more messages; a fetch that raises
\* (FloodWaitError, RPCError or another exception) goes to the sleep of its
\* except clause.
BackfillFetch ==
  /\ backfill.pc = "fetch"
  /\ \E raises \in BOOLEAN, chunk \in {FetchChunk(backfill.offset_id, ChunkSize(backfill))} :
       backfill' =
         IF backfill.limit # None /\ backfill.limit.n - backfill.total_fetched <= 0
         THEN [backfill EXCEPT !.pc = "insert"]
         ELSE IF raises
         THEN [backfill EXCEPT !.pc = "delay",
                               !.retries = IF @ < MAX_RETRIES + 1 THEN @ + 1 ELSE @]
         ELSE IF Len(chunk) = 0
         THEN [backfill EXCEPT !.pc = "insert", !.retries = 0]
         ELSE [backfill EXCEPT !.pc = "process", !.chunk = chunk, !.at = 0, !.retries = 0,
                               !.fetched = @ \cup {chunk[i] : i \in 1..Len(chunk)}]
  /\ UNCHANGED <<storeVars, queryVars, codecVars, connVars, rpcVars,
                 users, media, found, pager, attempt>>

\* The store calls made for a message: insert_or_update_user for a sender
\* not yet in processed_users, insert_media for a message with media.
StoresUser(b, msg) == msg.sender # 0 /\ msg.sender \notin b.processed_users
StoresMedia(msg) == msg.sender # 0 /\ msg.media

\* One message of the chunk is processed; fault is the store call that
\* raises ("-": none), which leaves the for loop for the sleep of "except
\* Exception". After the last message offset_id and total_fetched are
\* updated, the callback is called and the delay awaited.
BackfillProcess ==
  /\ backfill.pc = "process"
  /\ \E msg \in {Origin(backfill.chunk[backfill.at + 1])}, fault \in {"-", "user", "media"} :
       /\ fault = "user" => StoresUser(backfill, msg)
       /\ fault = "media" => StoresMedia(msg)
       /\ fault # "-" => backfill.faults < MaxFaults
       /\ users' = IF StoresUser(backfill, msg) /\ fault # "user"
                   THEN SqlUpsertUser(users, User(msg.sender, None, JStr(<<"a">>), None))
                   ELSE users
       /\ media' = IF StoresMedia(msg) /\ fault = "-"
                   THEN SqlReplaceMedia(media, Media(msg.id, 1, <<"p">>, <<"x">>))
                   ELSE media
       /\ \E b \in {[backfill EXCEPT
                       !.all_messages = IF msg.sender # 0 THEN Append(@, ProcessMessage(msg))
                                        ELSE @,
                       !.processed_users = IF StoresUser(backfill, msg) /\ fault # "user"
                                           THEN @ \cup {msg.sender} ELSE @]} :
            backfill' =
              IF fault # "-"
              THEN [b EXCEPT !.pc = "delay", !.chunk = <<>>, !.at = 0, !.faults = @ + 1]
              ELSE IF b.at + 1 < Len(b.chunk)
              THEN [b EXCEPT !.at = @ + 1]
              ELSE [b EXCEPT !.pc = "delay", !.chunk = <<>>, !.at = 0,
                             !.offset_id = b.chunk[Len(b.chunk)],
                             !.total_fetched = @ + Len(b.chunk)]
  /\ UNCHANGED <<storeVars, queryVars, codecVars, connVars, rpcVars, found, pager, attempt>>

\* The sleep after a chunk, or of an except clause, is over: the check of
\* the limit, then the next turn of the loop.
BackfillDelay ==
  /\ backfill.pc = "delay"
  /\ backfill' = [backfill EXCEPT !.pc = IF LimitReached(backfill) THEN "insert" ELSE "fetch"]
  /\ UNCHANGED <<storeVars, queryVars, codecVars, connVars, rpcVars,
                 users, media, found, pager, attempt>>

\* After the loop: the batch insert of all_messages, when it is not empty;
\* an exception of insert_messages_batch leaves backfill_messages.
BackfillInsert ==
  /\ backfill.pc = "insert"
  /\ insert_messages_batch(backfill.all_messages)
  /\ backfill' = [backfill EXCEPT
                    !.pc = IF Len(backfill.all_messages) > 0 /\ last_write'.failed
                           THEN "raised" ELSE "done"]
  /\ UNCHANGED <<queryVars, codecVars, connVars, rpcVars, users, media, found, pager, attempt>>

BackfillNext ==
  \/ BackfillStart
  \/ BackfillFetch
  \/ BackfillProcess
  \/ BackfillDelay
  \/ BackfillInsert

\* One backfill, with fetches and store calls that may raise.
SpecBackfill == Init /\ [][BackfillNext]_vars

\* The same, and the call runs whenever it can.
SpecBackfillFair == SpecBackfill /\ WF_vars(BackfillNext)

\* backfill_messages has come to its end.
BackfillEnded == backfill.pc \in {"insert", "done", "raised"}

\* C36: at the end of backfill_messages, all_messages, the list handed to
\* insert_messages_batch, holds each fetched message that has a sender
\* exactly once, also after a chunk whose processing failed partway was
\* fetched again.
C36_EachMessageOnce ==
  BackfillEnded =>
    /\ \A id \in backfill.fetched :
         Origin(id).sender # 0 =>
           Cardinality({i \in 1..Len(backfill.all_messages) :
                          backfill.all_messages[i].id = id}) = 1
    /\ \A i \in 1..Len(backfill.all_messages) :
         backfill.all_messages[i].id \in backfill.fetched

\* C37: a failing chunk fetch is retried at most MAX_RETRIES times, and
\* backfill_messages comes to its end whatever the origin does.
C37_RetriesBounded ==
  /\ [](backfill.retries <= MAX_RETRIES)
  /\ <>BackfillEnded

=============================================================================
